---- MODULE Spec2Model ----
(***************************************************************************)
(* State-machine model of the U-BASE education-management application      *)
(* (src/app.py): the spreadsheet-backed tables, the cached table reader,   *)
(* the id allocators and the button handlers of the pages.                 *)
(*                                                                         *)
(* Encoding of cells.  Every cell of a sheet is text.  Columns that hold   *)
(* numbers or timestamps (id, student_id, created_at, updated_at) are      *)
(* modelled as integers: n > 0 is the decimal text of n (gspread's         *)
(* get_all_records turns such text into an int and write_sheet_df turns it *)
(* back into text), 0 is the empty cell "" and -1 is a text that int()     *)
(* rejects.  All other columns hold strings.  Japanese literals of the     *)
(* source are written as ASCII tokens: grades "E1".."E6" (sho), "J1".."J3" *)
(* (chu), "H1".."H3" (ko), "KISOTSU"; exam categories "teiki" / "moshi".   *)
(* A JSON column holds json_dumps(v), a record carrying the document.      *)
(***************************************************************************)
EXTENDS Integers, Sequences, FiniteSets, TLC

VARIABLES
    sheets,      \* the spreadsheet: sheet name -> [header, rows]
    cache,       \* st.cache_data of load_sheet_df: sheet name -> [present, df]
    session,     \* st.session_state: [username, name] of the logged-in user
    clock,       \* datetime.now(), a counter of the stamps taken so far
    lastOp,      \* the handler that ran last and the message it showed
    everIssued,   \* history: per id space, the ids handed out so far
    pending,     \* script runs between their read and their write: writer -> run
    peers        \* st.cache_data of the other server processes: process -> sheet -> entry

vars == <<sheets, cache, session, clock, lastOp, everIssued, pending, peers>>

----------------------------------------------------------------------------
(* Bounds of the model *)

MaxClock == 4        \* stamps (datetime.now() calls that are stored) per run
MaxStudents == 2     \* rows of students
MaxRecords == 3      \* rows of each of exam_results / coaching_reports / eiken_records
MaxUsers == 3        \* rows of users

----------------------------------------------------------------------------
(* Small helpers *)

Range(s) == {s[i] : i \in DOMAIN s}

RECURSIVE SelectRows(_, _)
\* df[mask]: the rows whose index is in keep, in order
SelectRows(rows, keep) ==
    IF rows = <<>> THEN <<>>
    ELSE LET n == Len(rows)
             front == SelectRows(SubSeq(rows, 1, n - 1), keep)
         IN  IF n \in keep THEN Append(front, rows[n]) ELSE front

SetMax(S) == CHOOSE m \in S : \A k \in S : k <= m

BLANK_NUM == 0       \* the empty cell of a numeric column
BAD_NUM == -1        \* a cell of a numeric column that int() rejects

NumericColumns == {"id", "student_id", "created_at", "updated_at"}
JsonColumns == {"subjects", "mock_subjects", "results_json", "student_eval_json",
                "teacher_eval_json", "study_schedule_json", "study_targets_json",
                "scores_json"}

\* json.dumps(v, ensure_ascii=False): the text of document v, written member
\* by member: key and value for a dict, position and element for a list
json_dumps(v) == [text |-> "valid", doc |-> {<<k, v[k]>> : k \in DOMAIN v}]

\* the cell "" of a JSON column
EmptyJsonCell == [text |-> "empty", doc |-> <<>>]

\* the columns whose cells are free text
TextColumn(c) == c \notin (NumericColumns \cup JsonColumns)

\* the value of a text cell holding digits once it has been read: an int
INT_7 == "int 7"

\* numericise of get_all_records on the text of a cell: text that int()
\* accepts comes back as the number, any other text as it is
numericise(text) == IF text \in {"7", "007"} THEN INT_7 ELSE text

\* str(v) of a value read from a text cell
str(v) == IF v = INT_7 THEN "7" ELSE v

\* df.astype(str) on the text columns of the rows
astype_str(rows) ==
    [i \in DOMAIN rows |->
        [c \in DOMAIN rows[i] |->
            IF TextColumn(c) THEN str(rows[i][c]) ELSE rows[i][c]]]

\* the value "" that _ensure_columns puts into a missing column
BlankCell(c) ==
    IF c \in NumericColumns THEN BLANK_NUM
    ELSE IF c \in JsonColumns THEN EmptyJsonCell
    ELSE ""

----------------------------------------------------------------------------
(* Sheets and schemas *)

SHEET_NAMES == {"users", "students", "exam_results", "coaching_reports", "eiken_records"}

SHEET_SCHEMAS ==
    [users |-> <<"username", "name", "password_hash", "role">>,
     students |-> <<"student_id", "name", "grade", "school_name", "target_school",
                    "admission_goal", "student_login_id", "subjects", "mock_subjects",
                    "created_at">>,
     exam_results |-> <<"id", "student_id", "exam_category", "exam_name", "date",
                        "results_json", "created_at">>,
     coaching_reports |-> <<"id", "student_id", "date", "student_eval_json",
                            "teacher_eval_json", "study_schedule_json",
                            "study_targets_json", "created_at">>,
     eiken_records |-> <<"id", "student_id", "target_grade", "exam_date",
                         "practice_date", "category", "scores_json", "created_at">>]

\* the header rows init_sheets gives to the worksheets it creates
required_sheets ==
    [users |-> <<"username", "name", "password_hash", "role">>,
     students |-> <<"student_id", "name", "grade", "school_name", "target_school",
                    "admission_goal", "student_login_id", "subjects", "mock_subjects",
                    "created_at">>,
     exam_results |-> <<"id", "student_id", "exam_category", "exam_name", "date",
                        "results_json", "created_at", "teacher_username",
                        "teacher_name">>,
     coaching_reports |-> <<"id", "student_id", "date", "student_eval_json",
                            "teacher_eval_json", "study_schedule_json",
                            "study_targets_json", "created_at", "updated_at",
                            "teacher_username", "teacher_name">>,
     eiken_records |-> <<"id", "student_id", "target_grade", "exam_date",
                         "practice_date", "category", "scores_json", "created_at",
                         "teacher_username", "teacher_name">>]

\* A DataFrame is [columns |-> sequence of names, rows |-> sequence of rows],
\* a row being a function from the column names to cells.

\* pd.DataFrame(columns=cols)
EmptyDataFrame(cols) == [columns |-> cols, rows |-> <<>>]

\* "for col in cols: if col not in df.columns: df[col] = ''" of the handlers
add_missing_columns(df, cols) ==
    LET extra == SelectSeq(cols, LAMBDA c : c \notin Range(df.columns))
        all == df.columns \o extra
    IN  [columns |-> all,
         rows |-> [i \in DOMAIN df.rows |->
                     [c \in Range(all) |->
                        IF c \in Range(df.columns) THEN df.rows[i][c] ELSE BlankCell(c)]]]

\* mutant: the columns of the sheet are kept as they are
ensure_columns_as_stored(df, sheet_name) == df

\* _ensure_columns: add the schema's missing columns as "", keep only the
\* schema's columns, in the schema's order
ensure_columns(df, sheet_name) ==
    LET cols == SHEET_SCHEMAS[sheet_name]
    IN  [columns |-> cols,
         rows |-> [i \in DOMAIN df.rows |->
                     [c \in Range(cols) |->
                        IF c \in Range(df.columns) THEN df.rows[i][c] ELSE BlankCell(c)]]]

\* pd.concat([df, pd.DataFrame([new_row])], ignore_index=True); keys is the
\* key order of the dict new_row
concat_row(df, keys, new_row) ==
    LET extra == SelectSeq(keys, LAMBDA c : c \notin Range(df.columns))
        all == df.columns \o extra
    IN  [columns |-> all,
         rows |-> Append([i \in DOMAIN df.rows |->
                            [c \in Range(all) |->
                               IF c \in Range(df.columns) THEN df.rows[i][c]
                               ELSE BlankCell(c)]],
                         [c \in Range(all) |->
                            IF c \in Range(keys) THEN new_row[c] ELSE BlankCell(c)])]

----------------------------------------------------------------------------
(* Tabular store gateway and cached reader.  A world is the pair            *)
(* [sheets, cache] a handler threads through its reads and writes.          *)

World == [sheets |-> sheets, cache |-> cache]

NoEntry == [present |-> FALSE, df |-> EmptyDataFrame(<<>>)]

\* ws.get_all_records(): one dict per data row, keyed by the header row
get_all_records(ws) ==
    [i \in DOMAIN ws.rows |->
        [c \in DOMAIN ws.rows[i] |->
            IF TextColumn(c) THEN numericise(ws.rows[i][c]) ELSE ws.rows[i][c]]]

\* body of load_sheet_df (a cache miss): read the sheet, fit it to the schema
fetch_sheet_df(w, sheet_name) ==
    LET ws == w.sheets[sheet_name]
        records == get_all_records(ws)
    IN  IF records = <<>>
        THEN EmptyDataFrame(SHEET_SCHEMAS[sheet_name])
        ELSE ensure_columns([columns |-> ws.header, rows |-> records], sheet_name)

\* the value load_sheet_df(sheet_name) returns in world w
load_sheet_df(w, sheet_name) ==
    IF w.cache[sheet_name].present
    THEN w.cache[sheet_name].df
    ELSE fetch_sheet_df(w, sheet_name)

\* the world after load_sheet_df(sheet_name): a miss stores the entry
after_load(w, sheet_name) ==
    [w EXCEPT !.cache[sheet_name] =
        [present |-> TRUE, df |-> load_sheet_df(w, sheet_name)]]

\* the world after the loads of several sheets
RECURSIVE after_loads(_, _)
after_loads(w, names) ==
    IF names = <<>> THEN w
    ELSE after_loads(after_load(w, Head(names)), Tail(names))

\* mutant: the write leaves the cached entries in place
write_sheet_df_keeping_cache(w, sheet_name, df) ==
    LET d == ensure_columns(df, sheet_name)
    IN  [sheets |-> [w.sheets EXCEPT ![sheet_name] =
                        [header |-> d.columns, rows |-> astype_str(d.rows)]],
         cache |-> w.cache]

\* write_sheet_df: fit df to the schema, clear the sheet, write header and
\* rows as text, then load_sheet_df.clear() drops every cached entry
write_sheet_df(w, sheet_name, df) ==
    LET d == ensure_columns(df, sheet_name)
    IN  [sheets |-> [w.sheets EXCEPT ![sheet_name] =
                        [header |-> d.columns, rows |-> astype_str(d.rows)]],
         cache |-> [n \in SHEET_NAMES |-> NoEntry]]

DependentSheets == {"exam_results", "coaching_reports", "eiken_records"}

\* the call of write_sheet_df that raises: at ws.clear() or at ws.update()
WriteStages == {"clear", "update"}

\* mutant: the failed write drops the cached entries
write_sheet_df_raising_clearing_cache(w, sheet_name, stage) ==
    [sheets |-> IF stage = "clear" THEN w.sheets
                ELSE [w.sheets EXCEPT ![sheet_name] = [header |-> <<>>, rows |-> <<>>]],
     cache |-> [n \in SHEET_NAMES |-> NoEntry]]

\* write_sheet_df when the transport raises: at ws.clear() nothing has
\* changed, at ws.update() the sheet has been cleared; load_sheet_df.clear()
\* is not reached in either case
write_sheet_df_raising(w, sheet_name, stage) ==
    [sheets |-> IF stage = "clear" THEN w.sheets
                ELSE [w.sheets EXCEPT ![sheet_name] = [header |-> <<>>, rows |-> <<>>]],
     cache |-> w.cache]

get_students_df(w) == load_sheet_df(w, "students")
get_exam_results_df(w) == load_sheet_df(w, "exam_results")
get_coaching_df(w) == load_sheet_df(w, "coaching_reports")
get_eiken_df(w) == load_sheet_df(w, "eiken_records")

----------------------------------------------------------------------------
(* Authentication and roles *)

MASTER_USERNAME == "master"
MASTER_NAME == "kanrisha"
MASTER_PASSWORD == "Ubase2025"

\* plaintext passwords a user may type
Passwords == {"", MASTER_PASSWORD, "pw1"}

\* stauth.Hasher.hash(p): the bcrypt hash of p (salt abstracted away)
Hasher_hash(p) ==
    CASE p = MASTER_PASSWORD -> "$2b$Ubase2025"
      [] p = "pw1" -> "$2b$pw1"
      [] OTHER -> "$2b$"

\* bcrypt.checkpw(p, h)
checkpw(p, h) == Hasher_hash(p) = h

\* mutant: the master row is appended to every non-empty table
ensure_master_user_always_appending(w) ==
    LET df == load_sheet_df(w, "users")
        w1 == after_load(w, "users")
        master_row == [username |-> MASTER_USERNAME, name |-> MASTER_NAME,
                       password_hash |-> Hasher_hash(MASTER_PASSWORD),
                       role |-> "master"]
    IN  IF df.rows = <<>>
        THEN write_sheet_df(w1, "users",
                 [columns |-> <<"username", "name", "password_hash", "role">>,
                  rows |-> <<master_row>>])
        ELSE write_sheet_df(w1, "users",
                 concat_row(df, <<"username", "name", "password_hash", "role">>,
                            master_row))

\* users has no row named master, or no row at all: add the master row
ensure_master_user(w) ==
    LET df == load_sheet_df(w, "users")
        w1 == after_load(w, "users")
        master_row == [username |-> MASTER_USERNAME, name |-> MASTER_NAME,
                       password_hash |-> Hasher_hash(MASTER_PASSWORD),
                       role |-> "master"]
    IN  IF df.rows = <<>>
        THEN write_sheet_df(w1, "users",
                 [columns |-> <<"username", "name", "password_hash", "role">>,
                  rows |-> <<master_row>>])
        ELSE IF ~ \E i \in DOMAIN df.rows : df.rows[i].username = MASTER_USERNAME
        THEN write_sheet_df(w1, "users",
                 concat_row(df, <<"username", "name", "password_hash", "role">>,
                            master_row))
        ELSE w1

\* the last row of df whose username is u
LastUserRow(df, u) ==
    df.rows[SetMax({i \in DOMAIN df.rows : str(df.rows[i].username) = u})]

\* build_authenticator: credentials and roles of the users rows with a
\* non-empty username
build_authenticator(df) ==
    LET names == {str(df.rows[i].username) : i \in DOMAIN df.rows} \ {""}
    IN  [creds |-> [u \in names |->
                       [name |-> IF LastUserRow(df, u).name # ""
                                 THEN LastUserRow(df, u).name ELSE u,
                        password |-> LastUserRow(df, u).password_hash]],
         roles |-> [u \in names |->
                       IF LastUserRow(df, u).role # ""
                       THEN LastUserRow(df, u).role ELSE "teacher"]]

\* mutant: a username without a role entry is given the master role
get_current_user_role_default_master(roles_dict, username) ==
    IF username \in DOMAIN roles_dict THEN roles_dict[username] ELSE "master"

\* roles_dict.get(username, "teacher")
get_current_user_role(roles_dict, username) ==
    IF username \in DOMAIN roles_dict THEN roles_dict[username] ELSE "teacher"

\* the role main() computes for the logged-in user in world w
current_role(w) ==
    get_current_user_role(build_authenticator(load_sheet_df(w, "users")).roles,
                          session.username)

LoggedIn == session.username # ""

----------------------------------------------------------------------------
(* Initial state: main() has run init_sheets and ensure_master_user *)

\* init_sheets on an empty spreadsheet: every sheet gets its header row
init_sheets ==
    [sheets |-> [n \in SHEET_NAMES |-> [header |-> required_sheets[n], rows |-> <<>>]],
     cache |-> [n \in SHEET_NAMES |-> NoEntry]]

NoOp == [op |-> "start", msg |-> "", id |-> 0, n |-> 0, ids |-> {},
         key |-> <<0, "">>, out |-> <<>>]

\* two script runs that may be between their read and their write
Writers == {"A", "B"}

\* the other server processes, each with its own st.cache_data
Instances == {"P", "Q"}

\* ttl=300 of load_sheet_df, counted in ticks of 150 seconds
CACHE_TTL == 2

\* an entry of such a cache: the table and the ticks since it was fetched
NoPeerEntry == [present |-> FALSE, df |-> EmptyDataFrame(<<>>), age |-> 0]

Idle == [stage |-> "idle", snapshot |-> <<>>, df |-> EmptyDataFrame(<<>>),
         id |-> 0, msg |-> ""]

Init ==
    /\ pending = [wr \in Writers |-> Idle]
    /\ peers = [i \in Instances |-> [n \in SHEET_NAMES |-> NoPeerEntry]]
    /\ sheets = ensure_master_user(init_sheets).sheets
    /\ cache = ensure_master_user(init_sheets).cache
    /\ session = [username |-> "", name |-> ""]
    /\ clock = 0
    /\ lastOp = NoOp
    /\ everIssued = [students |-> {}, exam_results |-> {}, coaching_reports |-> {},
                     eiken_records |-> {}]

\* authenticator.login: the form is shown while nobody is logged in and
\* accepts a username and a password that verify
Login(u, p) ==
    LET w == World
        auth == build_authenticator(load_sheet_df(w, "users"))
    IN  /\ ~ LoggedIn
        /\ u \in DOMAIN auth.creds
        /\ checkpw(p, auth.creds[u].password)
        /\ session' = [username |-> u, name |-> auth.creds[u].name]
        /\ cache' = after_load(w, "users").cache
        /\ lastOp' = [NoOp EXCEPT !.op = "login", !.msg = "success"]
        /\ UNCHANGED <<sheets, clock, everIssued, pending, peers>>

\* authenticator.logout: the sidebar button ends the session
Logout ==
    /\ LoggedIn
    /\ session' = [username |-> "", name |-> ""]
    /\ cache' = after_load(World, "users").cache
    /\ lastOp' = [NoOp EXCEPT !.op = "logout", !.msg = "success"]
    /\ UNCHANGED <<sheets, clock, everIssued, pending, peers>>

----------------------------------------------------------------------------
(* Student id allocation *)

\* int(v) on the text of a numeric cell: blank cells are skipped before the
\* call, unparseable ones raise and are skipped
int_parses(v) == v > 0

RECURSIVE ListMax(_)
\* max(all_ids) over a non-empty list
ListMax(ids) ==
    IF Len(ids) = 1 THEN ids[1]
    ELSE LET m == ListMax(Tail(ids))
         IN  IF ids[1] >= m THEN ids[1] ELSE m

RECURSIVE parsed_ids(_, _)
\* the loop "for v in df[col]: try: ids.append(int(v))" over the rows
parsed_ids(rows, col) ==
    IF rows = <<>> THEN <<>>
    ELSE LET v == rows[1][col]
             rest == parsed_ids(Tail(rows), col)
         IN  IF v = BLANK_NUM THEN rest
             ELSE IF int_parses(v) THEN <<v>> \o rest
             ELSE rest

\* mutant: no table contributes an id
student_ids_of_none(df) == <<>>

\* the student_id values of one table that generate_new_student_id collects
student_ids_of(df) ==
    IF df.rows # <<>> /\ "student_id" \in Range(df.columns)
    THEN parsed_ids(df.rows, "student_id")
    ELSE <<>>

FIRST_STUDENT_ID == 250001

\* mutant: only the students table is scanned
generate_new_student_id_students_only(w, students_df) ==
    LET all_ids == student_ids_of(students_df)
    IN  IF all_ids = <<>> THEN FIRST_STUDENT_ID
        ELSE ListMax(all_ids) + 1

generate_new_student_id(w, students_df) ==
    LET all_ids == student_ids_of(students_df)
                   \o student_ids_of(get_exam_results_df(w))
                   \o student_ids_of(get_coaching_df(w))
                   \o student_ids_of(get_eiken_df(w))
    IN  IF all_ids = <<>> THEN FIRST_STUDENT_ID
        ELSE ListMax(all_ids) + 1

----------------------------------------------------------------------------
(* Subjects and grades *)

JUNIOR_SUBJECTS == <<"kokugo", "sugaku", "eigo", "rika", "shakai">>

GRADE_CHOICES == <<"E1", "E2", "E3", "E4", "E5", "E6", "J1", "J2", "J3",
                   "H1", "H2", "H3", "KISOTSU">>

PROMOTION_MAP ==
    [E1 |-> "E2", E2 |-> "E3", E3 |-> "E4", E4 |-> "E5", E5 |-> "E6", E6 |-> "J1",
     J1 |-> "J2", J2 |-> "J3", J3 |-> "H1", H1 |-> "H2", H2 |-> "H3"]

\* mutant: the ladder is climbed two steps
promote_grade_value_twice(grade) ==
    IF grade \in DOMAIN PROMOTION_MAP
    THEN IF PROMOTION_MAP[grade] \in DOMAIN PROMOTION_MAP
         THEN PROMOTION_MAP[PROMOTION_MAP[grade]] ELSE PROMOTION_MAP[grade]
    ELSE grade

\* PROMOTION_MAP.get(grade, grade)
promote_grade_value(grade) ==
    IF grade \in DOMAIN PROMOTION_MAP THEN PROMOTION_MAP[grade] ELSE grade

\* grade.startswith(chu) / grade.startswith(ko)
StartsWithChu(grade) == grade \in {"J1", "J2", "J3"}
StartsWithKo(grade) == grade \in {"H1", "H2", "H3"}

\* inputs of the registration form
NameInputs == {"", "Taro"}
EditNameInputs == {"Jiro"}
NewPasswordInputs == {"", "pw1"}
GradeInputs == {"J2", "J3", "H3"}
RegularSelections == {<<"gendaibun">>}
MockSelections == {<<"eigoR">>}

STUDENT_KEYS == <<"student_id", "name", "grade", "school_name", "target_school",
                  "admission_goal", "student_login_id", "subjects", "mock_subjects",
                  "created_at">>

----------------------------------------------------------------------------
(* page_student_management *)

\* button "register_student"
StudentCreate(name, grade, regular_selected, mock_selected) ==
    LET w1 == after_loads(World, <<"users", "students">>)
        students_df == get_students_df(w1)
        subjects == IF StartsWithChu(grade) THEN JUNIOR_SUBJECTS
                    ELSE IF StartsWithKo(grade) \/ grade = "KISOTSU" THEN regular_selected
                    ELSE JUNIOR_SUBJECTS
        mock_subjects == IF StartsWithChu(grade) THEN <<>>
                         ELSE IF StartsWithKo(grade) \/ grade = "KISOTSU" THEN mock_selected
                         ELSE <<>>
        new_id == generate_new_student_id(w1, students_df)
        w2 == after_loads(w1, <<"exam_results", "coaching_reports", "eiken_records">>)
        new_row == [student_id |-> new_id, name |-> name, grade |-> grade,
                    school_name |-> "", target_school |-> "", admission_goal |-> "",
                    student_login_id |-> "",
                    subjects |-> json_dumps(subjects),
                    mock_subjects |-> json_dumps(mock_subjects),
                    created_at |-> clock + 1]
        w3 == write_sheet_df(w2, "students", concat_row(students_df, STUDENT_KEYS, new_row))
    IN  /\ LoggedIn
        /\ IF name = ""
           THEN /\ sheets' = w1.sheets
                /\ cache' = w1.cache
                /\ lastOp' = [NoOp EXCEPT !.op = "student_create", !.msg = "error_name"]
                /\ UNCHANGED <<clock, everIssued>>
           ELSE /\ clock < MaxClock
                /\ Len(students_df.rows) < MaxStudents
                /\ sheets' = w3.sheets
                /\ cache' = w3.cache
                /\ clock' = clock + 1
                /\ lastOp' = [NoOp EXCEPT !.op = "student_create", !.msg = "success",
                                          !.id = new_id]
                /\ everIssued' = [everIssued EXCEPT !.students = @ \cup {new_id}]
        /\ UNCHANGED <<session, pending, peers>>

\* df[keep-mask]: the rows of df whose cell in column col is not in values
rows_not_in(df, col, values) ==
    [columns |-> df.columns,
     rows |-> SelectRows(df.rows, {i \in DOMAIN df.rows : df.rows[i][col] \notin values})]

\* index of the first row of df whose cell in column col equals v
first_index(df, col, v) ==
    CHOOSE i \in DOMAIN df.rows :
        /\ df.rows[i][col] = v
        /\ \A j \in DOMAIN df.rows : df.rows[j][col] = v => i <= j

Op(op, msg) == [NoOp EXCEPT !.op = op, !.msg = msg]

SchoolInputs == {"", "Kita"}

\* mutant: the update also recomputes the subjects for the new grade
update_student_row_resetting_subjects(row, edit_name, edit_grade, edit_school_name) ==
    [row EXCEPT !.name = edit_name, !.grade = edit_grade,
                !.school_name = edit_school_name,
                !.subjects = json_dumps(IF StartsWithChu(edit_grade)
                                        THEN JUNIOR_SUBJECTS ELSE <<>>),
                !.mock_subjects = json_dumps(<<>>)]

\* the six "students_df.at[idx, ...] = edit_..." assignments; target_school,
\* admission_goal and student_login_id are left at the value the form shows,
\* the stored one
update_student_row(row, edit_name, edit_grade, edit_school_name) ==
    [row EXCEPT !.name = edit_name, !.grade = edit_grade,
                !.school_name = edit_school_name,
                !.target_school = row.target_school,
                !.admission_goal = row.admission_goal,
                !.student_login_id = row.student_login_id]

\* button "update_student": overwrite the editable fields of the selected row
StudentUpdate(selected_id, edit_name, edit_grade, edit_school_name) ==
    LET w1 == after_loads(World, <<"users", "students">>)
        students_df == get_students_df(w1)
        idx == first_index(students_df, "student_id", selected_id)
        edited == [students_df EXCEPT
                     !.rows[idx] = update_student_row(@, edit_name, edit_grade,
                                                      edit_school_name)]
        w2 == write_sheet_df(w1, "students", edited)
    IN  /\ LoggedIn
        /\ students_df.rows # <<>>
        /\ \E i \in DOMAIN students_df.rows : students_df.rows[i].student_id = selected_id
        /\ sheets' = w2.sheets
        /\ cache' = w2.cache
        /\ lastOp' = [Op("student_update", "success") EXCEPT !.id = selected_id]
        /\ UNCHANGED <<session, clock, everIssued, pending, peers>>

\* "if current_role == 'master':" that guards the bulk promotion section
bulk_promotion_shown(role) == role = "master"

\* button "btn_bulk_grade_promotion"
BulkPromote(target_grades) ==
    LET w1 == after_loads(World, <<"users", "students">>)
        page_df == get_students_df(w1)
        students_df_all == get_students_df(w1)
        mask == {i \in DOMAIN students_df_all.rows :
                    students_df_all.rows[i].grade \in target_grades}
        n_targets == Cardinality(mask)
        promoted == [students_df_all EXCEPT !.rows =
                        [i \in DOMAIN students_df_all.rows |->
                           IF i \in mask
                           THEN [students_df_all.rows[i] EXCEPT
                                    !.grade = promote_grade_value(@)]
                           ELSE students_df_all.rows[i]]]
        w2 == write_sheet_df(w1, "students", promoted)
        reject(msg) == /\ sheets' = w1.sheets
                       /\ cache' = w1.cache
                       /\ lastOp' = Op("bulk_promote", msg)
    IN  /\ LoggedIn
        /\ IF page_df.rows = <<>> \/ ~ bulk_promotion_shown(current_role(w1))
           THEN reject("not_shown")
           ELSE IF target_grades = {} THEN reject("error_no_grades")
           ELSE IF students_df_all.rows = <<>> THEN reject("error_no_students")
           ELSE IF n_targets = 0 THEN reject("warning_no_targets")
           ELSE /\ sheets' = w2.sheets
                /\ cache' = w2.cache
                /\ lastOp' = [Op("bulk_promote", "success") EXCEPT !.n = n_targets]
        /\ UNCHANGED <<session, clock, everIssued, pending, peers>>

\* "if current_role == 'master' and not students_df.empty:" that guards the
\* delete section
student_delete_shown(role, students_df) == role = "master" /\ students_df.rows # <<>>

\* mutant: only the students table is rewritten
delete_cascade_students_only(w, students_df, delete_ids) ==
    write_sheet_df(w, "students", rows_not_in(students_df, "student_id", delete_ids))

\* the four writes of the cascade, starting in world w
delete_cascade(w, students_df, delete_ids) ==
    LET wS == write_sheet_df(w, "students",
                             rows_not_in(students_df, "student_id", delete_ids))
        exam_df == get_exam_results_df(wS)
        wE0 == after_load(wS, "exam_results")
        wE == IF exam_df.rows # <<>>
              THEN write_sheet_df(wE0, "exam_results",
                                  rows_not_in(exam_df, "student_id", delete_ids))
              ELSE wE0
        coach_df == get_coaching_df(wE)
        wC0 == after_load(wE, "coaching_reports")
        wC == IF coach_df.rows # <<>>
              THEN write_sheet_df(wC0, "coaching_reports",
                                  rows_not_in(coach_df, "student_id", delete_ids))
              ELSE wC0
        eiken_df == get_eiken_df(wC)
        wK0 == after_load(wC, "eiken_records")
    IN  IF eiken_df.rows # <<>>
        THEN write_sheet_df(wK0, "eiken_records",
                            rows_not_in(eiken_df, "student_id", delete_ids))
        ELSE wK0

\* the users rows named master, as the delete confirmation looks them up
master_rows(users_df) ==
    SelectSeq(users_df.rows, LAMBDA r : r.username = "master")

\* mutant: every non-empty admin password is accepted
admin_password_ok_always(admin_password, master_row) == TRUE

\* the admin password typed into the delete confirmation verifies
admin_password_ok(admin_password, master_row) ==
    checkpw(admin_password, master_row[1].password_hash)

\* button "delete_students"
StudentDelete(to_delete, admin_password) ==
    LET w1 == after_loads(World, <<"users", "students">>)
        students_df == get_students_df(w1)
        users_df == load_sheet_df(w1, "users")
        master_row == master_rows(users_df)
        w2 == delete_cascade(w1, students_df, to_delete)
        reject(msg) == /\ sheets' = w1.sheets
                       /\ cache' = w1.cache
                       /\ lastOp' = Op("student_delete", msg)
    IN  /\ LoggedIn
        /\ to_delete \subseteq {students_df.rows[i].student_id : i \in DOMAIN students_df.rows}
        /\ IF ~ student_delete_shown(current_role(w1), students_df)
           THEN reject("not_shown")
           ELSE IF to_delete = {} THEN reject("error_no_selection")
           ELSE IF admin_password = "" THEN reject("error_no_password")
           ELSE IF master_row = <<>> THEN reject("error_no_master")
           ELSE IF ~ admin_password_ok(admin_password, master_row)
                THEN reject("error_password")
           ELSE /\ sheets' = w2.sheets
                /\ cache' = w2.cache
                /\ lastOp' = [Op("student_delete", "success") EXCEPT !.ids = to_delete]
        /\ UNCHANGED <<session, clock, everIssued, pending, peers>>

\* mutant: a failed dependent write restores the students table
delete_cascade_raising_rolling_back(w, students_df, delete_ids, failing, stage) ==
    [sheets |-> w.sheets, cache |-> [n \in SHEET_NAMES |-> NoEntry]]

\* the cascade when the write of the dependent table failing raises: the
\* writes before it have succeeded, the ones after it are not reached
delete_cascade_raising(w, students_df, delete_ids, failing, stage) ==
    LET wS == write_sheet_df(w, "students",
                             rows_not_in(students_df, "student_id", delete_ids))
        exam_df == get_exam_results_df(wS)
        wE0 == after_load(wS, "exam_results")
        wE == IF exam_df.rows # <<>>
              THEN write_sheet_df(wE0, "exam_results",
                                  rows_not_in(exam_df, "student_id", delete_ids))
              ELSE wE0
        coach_df == get_coaching_df(wE)
        wC0 == after_load(wE, "coaching_reports")
        wC == IF coach_df.rows # <<>>
              THEN write_sheet_df(wC0, "coaching_reports",
                                  rows_not_in(coach_df, "student_id", delete_ids))
              ELSE wC0
        wK0 == after_load(wC, "eiken_records")
    IN  CASE failing = "exam_results" -> write_sheet_df_raising(wE0, failing, stage)
          [] failing = "coaching_reports" -> write_sheet_df_raising(wC0, failing, stage)
          [] failing = "eiken_records" -> write_sheet_df_raising(wK0, failing, stage)

\* button "delete_students" when the write of a non-empty dependent table
\* raises; the exception ends the run
StudentDeleteRaising(to_delete, admin_password, failing, stage) ==
    LET w1 == after_loads(World, <<"users", "students">>)
        students_df == get_students_df(w1)
        master_row == master_rows(load_sheet_df(w1, "users"))
        w2 == delete_cascade_raising(w1, students_df, to_delete, failing, stage)
    IN  /\ LoggedIn
        /\ to_delete \subseteq {students_df.rows[i].student_id : i \in DOMAIN students_df.rows}
        /\ student_delete_shown(current_role(w1), students_df)
        /\ to_delete # {} /\ admin_password # "" /\ master_row # <<>>
        /\ admin_password_ok(admin_password, master_row)
        /\ failing \in {"exam_results", "coaching_reports", "eiken_records"}
        /\ sheets[failing].rows # <<>>
        /\ sheets' = w2.sheets
        /\ cache' = w2.cache
        /\ lastOp' = [Op("student_delete", "exception") EXCEPT !.ids = to_delete]
        /\ UNCHANGED <<session, clock, everIssued, pending, peers>>

----------------------------------------------------------------------------
(* Record ids of exam_results / coaching_reports / eiken_records *)

\* mutant: the new id is the number of rows plus 1
new_record_id_counting_rows(df) == Len(df.rows) + 1

\* "ID saiban": 1 when every id cell is blank, else max of the ids that
\* int() accepts plus 1, or 1 when none parses
new_record_id(df) ==
    IF \A i \in DOMAIN df.rows : df.rows[i].id = BLANK_NUM
    THEN 1
    ELSE LET ids == parsed_ids(df.rows, "id")
         IN  IF ids # <<>> THEN ListMax(ids) + 1 ELSE 1

\* the student ids the page's selectbox offers
student_choices(students_df) ==
    {students_df.rows[i].student_id : i \in DOMAIN students_df.rows}

\* the record ids of one student the edit / delete selectboxes offer
record_choices(df, student_id) ==
    {df.rows[i].id : i \in {j \in DOMAIN df.rows : df.rows[j].student_id = student_id}}

\* mutant: the text is never parsed
json_loads_default_only(cell, default) == default

\* json.loads(cell or "[]") with the handlers' except clause: the document
\* rebuilt from the members of the text
json_loads(cell, default) ==
    IF cell.text = "valid"
    THEN [k \in {m[1] : m \in cell.doc} |-> (CHOOSE m \in cell.doc : m[1] = k)[2]]
    ELSE default

----------------------------------------------------------------------------
(* page_grade_tracker *)

EXAM_KEYS == <<"id", "student_id", "exam_category", "exam_name", "date",
               "results_json", "created_at", "teacher_username", "teacher_name">>

ExamCategories == {"teiki", "moshi"}
MockNameInputs == {"", "zento"}
REGULAR_EXAM_NAMES == <<"1gakki-chukan", "1gakki-kimatsu", "2gakki-chukan",
                        "2gakki-kimatsu", "gakunenmatsu">>
ExamDateInputs == {"2024-05-01"}
ScoreInputs == {75}

\* mutant: the exam name is never checked
exam_name_missing_never(exam_category, exam_name) == FALSE

\* "if exam_category == moshi and not exam_name": the save is refused
exam_name_missing(exam_category, exam_name) ==
    exam_category = "moshi" /\ exam_name = ""

\* a run of the page with no button pressed: the student list and, for a
\* store with students, the exam results are loaded
GradeTrackerView ==
    LET w1 == after_loads(World, <<"users", "students">>)
        w2 == IF get_students_df(w1).rows = <<>> THEN w1
              ELSE after_load(w1, "exam_results")
    IN  /\ LoggedIn
        /\ cache' = w2.cache
        /\ lastOp' = Op("grade_view", "")
        /\ UNCHANGED <<sheets, session, clock, everIssued, pending, peers>>

\* button "grade_save_exam" when write_sheet_df raises; the exception ends
\* the run before the handler's own cache clear and success message
ExamCreateRaising(student_id, exam_category, exam_name, stage) ==
    LET w1 == after_loads(World, <<"users", "students">>)
        students_df == get_students_df(w1)
        student_row == students_df.rows[first_index(students_df, "student_id", student_id)]
        subjects == IF exam_category = "teiki"
                    THEN json_loads(student_row.subjects, <<>>)
                    ELSE json_loads(student_row.mock_subjects, <<>>)
        w2 == after_load(w1, "exam_results")
        w3 == write_sheet_df_raising(w2, "exam_results", stage)
    IN  /\ LoggedIn
        /\ student_id \in student_choices(students_df)
        /\ exam_category = "teiki" => exam_name \in Range(REGULAR_EXAM_NAMES)
        /\ subjects # <<>>
        /\ ~ exam_name_missing(exam_category, exam_name)
        /\ sheets' = w3.sheets
        /\ cache' = w3.cache
        /\ lastOp' = Op("exam_create", "exception")
        /\ UNCHANGED <<session, clock, everIssued, pending, peers>>

\* button "grade_save_exam" in the run of writer wr, up to the call of
\* write_sheet_df: the table is read and the new row is appended in memory
ExamCreateRead(wr, student_id, exam_category, exam_name, exam_date, score) ==
    LET w1 == after_loads(World, <<"users", "students">>)
        students_df == get_students_df(w1)
        student_row == students_df.rows[first_index(students_df, "student_id", student_id)]
        subjects == IF exam_category = "teiki"
                    THEN json_loads(student_row.subjects, <<>>)
                    ELSE json_loads(student_row.mock_subjects, <<>>)
        results == [subj \in Range(subjects) |-> [target |-> 80, score |-> score]]
        loaded == get_exam_results_df(w1)
        w2 == after_load(w1, "exam_results")
        exam_df == IF loaded.rows = <<>> THEN EmptyDataFrame(EXAM_KEYS)
                   ELSE add_missing_columns(loaded, EXAM_KEYS)
        new_id == new_record_id(exam_df)
        new_row == [id |-> new_id, student_id |-> student_id,
                    exam_category |-> exam_category, exam_name |-> exam_name,
                    date |-> exam_date, results_json |-> json_dumps(results),
                    created_at |-> clock + 1,
                    teacher_username |-> session.username,
                    teacher_name |-> session.name]
    IN  /\ LoggedIn
        /\ pending[wr].stage # "read"
        /\ student_id \in student_choices(students_df)
        /\ exam_category = "teiki" => exam_name \in Range(REGULAR_EXAM_NAMES)
        /\ subjects # <<>>
        /\ ~ exam_name_missing(exam_category, exam_name)
        /\ clock < MaxClock
        /\ Len(loaded.rows) < MaxRecords
        /\ clock' = clock + 1
        /\ cache' = w2.cache
        /\ pending' = [pending EXCEPT ![wr] =
                          [stage |-> "read", snapshot |-> loaded.rows,
                           df |-> concat_row(exam_df, EXAM_KEYS, new_row),
                           id |-> new_id, msg |-> ""]]
        /\ lastOp' = Op("exam_create", "reading")
        /\ UNCHANGED <<sheets, session, everIssued, peers>>

\* mutant: the write re-reads the table and appends the run's new row
ExamCreateWrite_merging(wr) ==
    LET mine == pending[wr].df.rows[Len(pending[wr].df.rows)]
        now == fetch_sheet_df(World, "exam_results")
        w3 == write_sheet_df(World, "exam_results",
                             [pending[wr].df EXCEPT !.rows = Append(now.rows, mine)])
    IN  /\ pending[wr].stage = "read"
        /\ sheets' = w3.sheets
        /\ cache' = w3.cache
        /\ pending' = [pending EXCEPT ![wr].stage = "done", ![wr].msg = "success"]
        /\ lastOp' = [Op("exam_create", "success") EXCEPT !.id = pending[wr].id]
        /\ everIssued' = [everIssued EXCEPT !.exam_results = @ \cup {pending[wr].id}]
        /\ UNCHANGED <<session, clock, peers>>

\* the rest of the run of writer wr: write_sheet_df with the table built
\* at read time, then the success message
ExamCreateWrite(wr) ==
    LET w3 == write_sheet_df(World, "exam_results", pending[wr].df)
    IN  /\ pending[wr].stage = "read"
        /\ sheets' = w3.sheets
        /\ cache' = w3.cache
        /\ pending' = [pending EXCEPT ![wr].stage = "done", ![wr].msg = "success"]
        /\ lastOp' = [Op("exam_create", "success") EXCEPT !.id = pending[wr].id]
        /\ everIssued' = [everIssued EXCEPT !.exam_results = @ \cup {pending[wr].id}]
        /\ UNCHANGED <<session, clock, peers>>

\* button "grade_save_exam"
ExamCreate(student_id, exam_category, exam_name, exam_date, score) ==
    LET w1 == after_loads(World, <<"users", "students">>)
        students_df == get_students_df(w1)
        student_row == students_df.rows[first_index(students_df, "student_id", student_id)]
        subjects == IF exam_category = "teiki"
                    THEN json_loads(student_row.subjects, <<>>)
                    ELSE json_loads(student_row.mock_subjects, <<>>)
        results == [subj \in Range(subjects) |-> [target |-> 80, score |-> score]]
        loaded == get_exam_results_df(w1)
        w2 == after_load(w1, "exam_results")
        exam_df == IF loaded.rows = <<>> THEN EmptyDataFrame(EXAM_KEYS)
                   ELSE add_missing_columns(loaded, EXAM_KEYS)
        new_id == new_record_id(exam_df)
        new_row == [id |-> new_id, student_id |-> student_id,
                    exam_category |-> exam_category, exam_name |-> exam_name,
                    date |-> exam_date, results_json |-> json_dumps(results),
                    created_at |-> clock + 1,
                    teacher_username |-> session.username,
                    teacher_name |-> session.name]
        w3 == write_sheet_df(w2, "exam_results", concat_row(exam_df, EXAM_KEYS, new_row))
    IN  /\ LoggedIn
        /\ student_id \in student_choices(students_df)
        /\ exam_category = "teiki" => exam_name \in Range(REGULAR_EXAM_NAMES)
        /\ subjects # <<>>
        /\ IF exam_name_missing(exam_category, exam_name)
           THEN /\ sheets' = w1.sheets
                /\ cache' = after_load(w1, "exam_results").cache
                /\ lastOp' = Op("exam_create", "error_exam_name")
                /\ UNCHANGED <<clock, everIssued>>
           ELSE /\ clock < MaxClock
                /\ Len(loaded.rows) < MaxRecords
                /\ sheets' = w3.sheets
                /\ cache' = w3.cache
                /\ clock' = clock + 1
                /\ lastOp' = [Op("exam_create", "success") EXCEPT !.id = new_id]
                /\ everIssued' = [everIssued EXCEPT !.exam_results = @ \cup {new_id}]
        /\ UNCHANGED <<session, pending, peers>>

\* mutant: the table the form showed is written when the row is not found
ExamUpdate_writing_when_missing(student_id, edit_id, edit_exam_category, edit_exam_name, edit_exam_date, score_edit, expired) ==
    LET w1 == after_loads(World, <<"users", "students", "exam_results">>)
        students_df == get_students_df(w1)
        exam_df == get_exam_results_df(w1)
        target_row == exam_df.rows[first_index(exam_df, "id", edit_id)]
        res == json_loads(target_row.results_json, <<>>)
        edit_results == [subj \in DOMAIN res |->
                            [target |-> res[subj].target, score |-> score_edit]]
        inputs == [expired |-> expired, category |-> edit_exam_category,
                   name |-> edit_exam_name, date |-> edit_exam_date]
        \* the entry may pass its ttl between the form and the button
        wB == IF expired
              THEN after_load([w1 EXCEPT !.cache.exam_results = NoEntry], "exam_results")
              ELSE w1
        loaded == get_exam_results_df(wB)
        exam_all == add_missing_columns(loaded, <<"teacher_username", "teacher_name">>)
        idx == first_index(exam_all, "id", edit_id)
        w2 == write_sheet_df(wB, "exam_results",
                  [exam_all EXCEPT
                     !.rows[idx].exam_category = edit_exam_category,
                     !.rows[idx].exam_name = edit_exam_name,
                     !.rows[idx].date = edit_exam_date,
                     !.rows[idx].results_json = json_dumps(edit_results),
                     !.rows[idx].teacher_username = session.username,
                     !.rows[idx].teacher_name = session.name])
    IN  /\ LoggedIn
        /\ student_id \in student_choices(students_df)
        /\ edit_id \in record_choices(exam_df, student_id)
        /\ edit_exam_category = "teiki" => edit_exam_name \in Range(REGULAR_EXAM_NAMES)
        /\ IF loaded.rows = <<>>
           THEN /\ sheets' = write_sheet_df(wB, "exam_results", exam_df).sheets
                /\ cache' = write_sheet_df(wB, "exam_results", exam_df).cache
                /\ lastOp' = [Op("exam_update", "error_no_data") EXCEPT !.id = edit_id,
                                 !.out = inputs]
           ELSE IF ~ \E i \in DOMAIN exam_all.rows : exam_all.rows[i].id = edit_id
           THEN /\ sheets' = write_sheet_df(wB, "exam_results", exam_df).sheets
                /\ cache' = write_sheet_df(wB, "exam_results", exam_df).cache
                /\ lastOp' = [Op("exam_update", "error_not_found") EXCEPT !.id = edit_id,
                                 !.out = inputs]
           ELSE /\ sheets' = w2.sheets
                /\ cache' = w2.cache
                /\ lastOp' = [Op("exam_update", "success") EXCEPT !.id = edit_id,
                                 !.out = inputs]
        /\ UNCHANGED <<session, clock, everIssued, pending, peers>>

\* button "btn_update_exam_<id>": overwrite category, name, date, results
\* and the teacher columns of the row with the chosen id
\* (lines 1409-1415: no data, or no row of the id, is an error and no write)
ExamUpdate(student_id, edit_id, edit_exam_category, edit_exam_name, edit_exam_date, score_edit, expired) ==
    LET w1 == after_loads(World, <<"users", "students", "exam_results">>)
        students_df == get_students_df(w1)
        exam_df == get_exam_results_df(w1)
        target_row == exam_df.rows[first_index(exam_df, "id", edit_id)]
        res == json_loads(target_row.results_json, <<>>)
        edit_results == [subj \in DOMAIN res |->
                            [target |-> res[subj].target, score |-> score_edit]]
        inputs == [expired |-> expired, category |-> edit_exam_category,
                   name |-> edit_exam_name, date |-> edit_exam_date]
        \* the entry may pass its ttl between the form and the button
        wB == IF expired
              THEN after_load([w1 EXCEPT !.cache.exam_results = NoEntry], "exam_results")
              ELSE w1
        loaded == get_exam_results_df(wB)
        exam_all == add_missing_columns(loaded, <<"teacher_username", "teacher_name">>)
        idx == first_index(exam_all, "id", edit_id)
        w2 == write_sheet_df(wB, "exam_results",
                  [exam_all EXCEPT
                     !.rows[idx].exam_category = edit_exam_category,
                     !.rows[idx].exam_name = edit_exam_name,
                     !.rows[idx].date = edit_exam_date,
                     !.rows[idx].results_json = json_dumps(edit_results),
                     !.rows[idx].teacher_username = session.username,
                     !.rows[idx].teacher_name = session.name])
    IN  /\ LoggedIn
        /\ student_id \in student_choices(students_df)
        /\ edit_id \in record_choices(exam_df, student_id)
        /\ edit_exam_category = "teiki" => edit_exam_name \in Range(REGULAR_EXAM_NAMES)
        /\ IF loaded.rows = <<>>
           THEN /\ sheets' = wB.sheets
                /\ cache' = wB.cache
                /\ lastOp' = [Op("exam_update", "error_no_data") EXCEPT !.id = edit_id,
                                 !.out = inputs]
           ELSE IF ~ \E i \in DOMAIN exam_all.rows : exam_all.rows[i].id = edit_id
           THEN /\ sheets' = wB.sheets
                /\ cache' = wB.cache
                /\ lastOp' = [Op("exam_update", "error_not_found") EXCEPT !.id = edit_id,
                                 !.out = inputs]
           ELSE /\ sheets' = w2.sheets
                /\ cache' = w2.cache
                /\ lastOp' = [Op("exam_update", "success") EXCEPT !.id = edit_id,
                                 !.out = inputs]
        /\ UNCHANGED <<session, clock, everIssued, pending, peers>>

\* button "grade_delete_exam_button": delete the exam rows with the chosen id
ExamDelete(student_id, del_id) ==
    LET w1 == after_loads(World, <<"users", "students", "exam_results">>)
        students_df == get_students_df(w1)
        exam_df_all2 == get_exam_results_df(w1)
        w2 == write_sheet_df(w1, "exam_results", rows_not_in(exam_df_all2, "id", {del_id}))
    IN  /\ LoggedIn
        /\ student_id \in student_choices(students_df)
        /\ del_id \in record_choices(exam_df_all2, student_id)
        /\ sheets' = w2.sheets
        /\ cache' = w2.cache
        /\ lastOp' = [Op("exam_delete", "success") EXCEPT !.id = del_id]
        /\ UNCHANGED <<session, clock, everIssued, pending, peers>>

----------------------------------------------------------------------------
(* page_coaching *)

COACHING_KEYS == <<"id", "student_id", "date", "student_eval_json",
                   "teacher_eval_json", "study_schedule_json", "study_targets_json",
                   "created_at", "updated_at", "teacher_username", "teacher_name">>

DateInputs == {"2024-05-01", "2024-05-02"}

\* values of the "jugyo taido" slider offered to the model; the other
\* sliders keep their default 3
AttitudeInputs == {3, 4}

student_eval_of == [rikaido |-> 3, mokuhyo |-> 3, motivation |-> 3]
teacher_eval_of(attitude) ==
    [taido |-> attitude, shukudai |-> 3, zenkai |-> 3, comment |-> ""]
schedule_dict_of == [d \in {"getsu"} |-> 1]
targets_list_of == <<"eigo", "", "">>

\* mutant: the existing report of the day is never found
same_day_mask_never(df, student_id, date_str) == {}

\* the rows of df for the same student and the same date
same_day_mask(df, student_id, date_str) ==
    {i \in DOMAIN df.rows :
        df.rows[i].student_id = student_id /\ df.rows[i].date = date_str}

\* button "save_coaching": insert, or overwrite the report of the same day
CoachingSave(student_id, date_str, attitude) ==
    LET w1 == after_loads(World, <<"users", "students", "coaching_reports">>)
        students_df == get_students_df(w1)
        loaded == get_coaching_df(w1)
        coaching_df_all == IF loaded.rows = <<>> THEN EmptyDataFrame(COACHING_KEYS)
                           ELSE add_missing_columns(loaded, COACHING_KEYS)
        mask == same_day_mask(coaching_df_all, student_id, date_str)
        now_str == clock + 1
        idx == CHOOSE i \in mask : \A j \in mask : i <= j
        updated == [coaching_df_all EXCEPT
                      !.rows[idx].student_eval_json = json_dumps(student_eval_of),
                      !.rows[idx].teacher_eval_json = json_dumps(teacher_eval_of(attitude)),
                      !.rows[idx].study_schedule_json = json_dumps(schedule_dict_of),
                      !.rows[idx].study_targets_json = json_dumps(targets_list_of),
                      !.rows[idx].updated_at = now_str,
                      !.rows[idx].teacher_username = session.username,
                      !.rows[idx].teacher_name = session.name]
        new_id == new_record_id(coaching_df_all)
        new_row == [id |-> new_id, student_id |-> student_id, date |-> date_str,
                    student_eval_json |-> json_dumps(student_eval_of),
                    teacher_eval_json |-> json_dumps(teacher_eval_of(attitude)),
                    study_schedule_json |-> json_dumps(schedule_dict_of),
                    study_targets_json |-> json_dumps(targets_list_of),
                    created_at |-> now_str, updated_at |-> now_str,
                    teacher_username |-> session.username,
                    teacher_name |-> session.name]
        inserted == concat_row(coaching_df_all, COACHING_KEYS, new_row)
    IN  /\ LoggedIn
        /\ student_id \in student_choices(students_df)
        /\ clock < MaxClock
        /\ clock' = clock + 1
        /\ IF mask # {}
           THEN /\ sheets' = write_sheet_df(w1, "coaching_reports", updated).sheets
                /\ cache' = write_sheet_df(w1, "coaching_reports", updated).cache
                /\ lastOp' = [Op("coaching_save", "warning_overwritten") EXCEPT
                                 !.id = coaching_df_all.rows[idx].id,
                                 !.key = <<student_id, date_str>>]
                /\ UNCHANGED everIssued
           ELSE /\ Len(loaded.rows) < MaxRecords
                /\ sheets' = write_sheet_df(w1, "coaching_reports", inserted).sheets
                /\ cache' = write_sheet_df(w1, "coaching_reports", inserted).cache
                /\ lastOp' = [Op("coaching_save", "success") EXCEPT
                                 !.id = new_id, !.key = <<student_id, date_str>>]
                /\ everIssued' = [everIssued EXCEPT !.coaching_reports = @ \cup {new_id}]
        /\ UNCHANGED <<session, pending, peers>>

\* button "btn_update_coaching": overwrite the report with the chosen id,
\* its date included
CoachingEdit(student_id, edit_id, edit_report_date, attitude) ==
    LET w1 == after_loads(World, <<"users", "students", "coaching_reports">>)
        students_df == get_students_df(w1)
        coaching_all == get_coaching_df(w1)
        wide == add_missing_columns(coaching_all,
                    <<"updated_at", "teacher_username", "teacher_name">>)
        idx_all == first_index(coaching_all, "id", edit_id)
        edited == [wide EXCEPT
                     !.rows[idx_all].date = edit_report_date,
                     !.rows[idx_all].student_eval_json = json_dumps(student_eval_of),
                     !.rows[idx_all].teacher_eval_json = json_dumps(teacher_eval_of(attitude)),
                     !.rows[idx_all].study_schedule_json = json_dumps(schedule_dict_of),
                     !.rows[idx_all].study_targets_json = json_dumps(targets_list_of),
                     !.rows[idx_all].updated_at = clock + 1,
                     !.rows[idx_all].teacher_username = session.username,
                     !.rows[idx_all].teacher_name = session.name]
        w2 == write_sheet_df(w1, "coaching_reports", edited)
    IN  /\ LoggedIn
        /\ student_id \in student_choices(students_df)
        /\ edit_id \in record_choices(coaching_all, student_id)
        /\ clock < MaxClock
        /\ clock' = clock + 1
        /\ sheets' = w2.sheets
        /\ cache' = w2.cache
        /\ lastOp' = [Op("coaching_edit", "success") EXCEPT
                         !.id = edit_id, !.key = <<student_id, edit_report_date>>]
        /\ UNCHANGED <<session, everIssued, pending, peers>>

\* button "delete_coaching_button": delete the reports with the chosen id
CoachingDelete(student_id, del_id) ==
    LET w1 == after_loads(World, <<"users", "students", "coaching_reports">>)
        students_df == get_students_df(w1)
        coaching_df_all == get_coaching_df(w1)
        w2 == write_sheet_df(w1, "coaching_reports",
                             rows_not_in(coaching_df_all, "id", {del_id}))
    IN  /\ LoggedIn
        /\ student_id \in student_choices(students_df)
        /\ del_id \in record_choices(coaching_df_all, student_id)
        /\ sheets' = w2.sheets
        /\ cache' = w2.cache
        /\ lastOp' = [Op("coaching_delete", "success") EXCEPT !.id = del_id]
        /\ UNCHANGED <<session, clock, everIssued, pending, peers>>

----------------------------------------------------------------------------
(* page_eiken *)

EIKEN_KEYS == <<"id", "student_id", "target_grade", "exam_date", "practice_date",
                "category", "scores_json", "created_at", "updated_at",
                "teacher_username", "teacher_name">>

EIKEN_TOTALS ==
    [k5 |-> [reading |-> 25, listening |-> 25, writing |-> 0, speaking |-> 0],
     k4 |-> [reading |-> 35, listening |-> 30, writing |-> 0, speaking |-> 0],
     k3 |-> [reading |-> 35, listening |-> 30, writing |-> 16, speaking |-> 16],
     kjun2 |-> [reading |-> 37, listening |-> 29, writing |-> 16, speaking |-> 16],
     k2 |-> [reading |-> 37, listening |-> 30, writing |-> 16, speaking |-> 16],
     kjun1 |-> [reading |-> 41, listening |-> 29, writing |-> 16, speaking |-> 20],
     k1 |-> [reading |-> 41, listening |-> 27, writing |-> 32, speaking |-> 20]]

EikenGradeInputs == {"k3"}
CorrectInputs == {10}

\* button "save_eiken"
EikenCreate(student_id, selected_grade, practice_date, correct) ==
    LET w1 == after_loads(World, <<"users", "students", "eiken_records">>)
        students_df == get_students_df(w1)
        loaded == get_eiken_df(w1)
        eiken_all == IF loaded.rows = <<>> THEN EmptyDataFrame(EIKEN_KEYS)
                     ELSE add_missing_columns(loaded, EIKEN_KEYS)
        totals == EIKEN_TOTALS[selected_grade]
        new_id == new_record_id(eiken_all)
        now_str == clock + 1
        scores == [reading |-> [correct |-> correct, total |-> totals.reading],
                   listening |-> [correct |-> correct, total |-> totals.listening],
                   writing |-> [correct |-> correct, total |-> totals.writing],
                   speaking |-> [correct |-> correct, total |-> totals.speaking]]
        new_row == [id |-> new_id, student_id |-> student_id,
                    target_grade |-> selected_grade, exam_date |-> practice_date,
                    practice_date |-> practice_date, category |-> "",
                    scores_json |-> json_dumps(scores),
                    created_at |-> now_str, updated_at |-> now_str,
                    teacher_username |-> session.username,
                    teacher_name |-> session.name]
        w2 == write_sheet_df(w1, "eiken_records", concat_row(eiken_all, EIKEN_KEYS, new_row))
    IN  /\ LoggedIn
        /\ student_id \in student_choices(students_df)
        /\ clock < MaxClock
        /\ Len(loaded.rows) < MaxRecords
        /\ sheets' = w2.sheets
        /\ cache' = w2.cache
        /\ clock' = clock + 1
        /\ lastOp' = [Op("eiken_create", "success") EXCEPT !.id = new_id]
        /\ everIssued' = [everIssued EXCEPT !.eiken_records = @ \cup {new_id}]
        /\ UNCHANGED <<session, pending, peers>>

\* button "btn_update_eiken_<id>": overwrite grade, dates, category, scores,
\* updated_at and the teacher columns of the record with the chosen id; the
\* totals of the new scores are the ones read from the stored scores
EikenUpdate(student_id, edit_id, edit_grade, edit_correct) ==
    LET w1 == after_loads(World, <<"users", "students", "eiken_records">>)
        students_df == get_students_df(w1)
        eiken_all_for_update ==
            add_missing_columns(get_eiken_df(w1),
                                <<"updated_at", "teacher_username", "teacher_name">>)
        idx_all == first_index(eiken_all_for_update, "id", edit_id)
        old_scores == json_loads(eiken_all_for_update.rows[idx_all].scores_json, <<>>)
        t_old(key) == IF key \in DOMAIN old_scores THEN old_scores[key].total ELSE 0
        new_scores == [k \in {"reading", "listening", "writing", "speaking"} |->
                          [correct |-> edit_correct, total |-> t_old(k)]]
        w2 == write_sheet_df(w1, "eiken_records",
                  [eiken_all_for_update EXCEPT
                     !.rows[idx_all].target_grade = edit_grade,
                     !.rows[idx_all].scores_json = json_dumps(new_scores),
                     !.rows[idx_all].updated_at = clock + 1,
                     !.rows[idx_all].teacher_username = session.username,
                     !.rows[idx_all].teacher_name = session.name])
    IN  /\ LoggedIn
        /\ student_id \in student_choices(students_df)
        /\ edit_id \in record_choices(eiken_all_for_update, student_id)
        /\ clock < MaxClock
        /\ sheets' = w2.sheets
        /\ cache' = w2.cache
        /\ clock' = clock + 1
        /\ lastOp' = [Op("eiken_update", "success") EXCEPT !.id = edit_id]
        /\ UNCHANGED <<session, everIssued, pending, peers>>

\* button "delete_eiken_button": delete the records with the chosen id
EikenDelete(student_id, del_id) ==
    LET w1 == after_loads(World, <<"users", "students", "eiken_records">>)
        students_df == get_students_df(w1)
        eiken_all == get_eiken_df(w1)
        w2 == write_sheet_df(w1, "eiken_records", rows_not_in(eiken_all, "id", {del_id}))
    IN  /\ LoggedIn
        /\ student_id \in student_choices(students_df)
        /\ del_id \in record_choices(eiken_all, student_id)
        /\ sheets' = w2.sheets
        /\ cache' = w2.cache
        /\ lastOp' = [Op("eiken_delete", "success") EXCEPT !.id = del_id]
        /\ UNCHANGED <<session, clock, everIssued, pending, peers>>

----------------------------------------------------------------------------
(* page_teacher_management *)

USER_KEYS == <<"username", "name", "password_hash", "role">>

UsernameInputs == {"", "t1"}
NewUsernameInputs == {"", "t1", "7", "master"}
TeacherNameInputs == {""}

\* mutant: the page serves every role
teacher_management_refused_never(role) == FALSE

\* "if current_role != 'master': st.error(...); return"
teacher_management_refused(role) == role # "master"

\* "if not new_username or not new_password"
teacher_input_missing(new_username, new_password) ==
    new_username = "" \/ new_password = ""

\* button "create_teacher"
TeacherCreate(new_username, new_name, new_password) ==
    LET w1 == after_load(World, "users")
        users_df == load_sheet_df(w1, "users")
        new_row == [username |-> new_username,
                    name |-> IF new_name # "" THEN new_name ELSE new_username,
                    password_hash |-> Hasher_hash(new_password),
                    role |-> "teacher"]
        w2 == write_sheet_df(w1, "users", concat_row(users_df, USER_KEYS, new_row))
        reject(msg) == /\ sheets' = w1.sheets
                       /\ cache' = w1.cache
                       /\ lastOp' = Op("teacher_create", msg)
    IN  /\ LoggedIn
        /\ IF teacher_management_refused(current_role(w1)) THEN reject("error_not_master")
           ELSE IF teacher_input_missing(new_username, new_password)
                THEN reject("error_missing_input")
           ELSE IF \E i \in DOMAIN users_df.rows : users_df.rows[i].username = new_username
                THEN reject("error_username_taken")
           ELSE /\ Len(users_df.rows) < MaxUsers
                /\ sheets' = w2.sheets
                /\ cache' = w2.cache
                /\ lastOp' = Op("teacher_create", "success")
        /\ UNCHANGED <<session, clock, everIssued, pending, peers>>

\* mutant: the password change also stores the role master in the row
TeacherChangePassword_promoting(selected_user, new_pw) ==
    LET w1 == after_load(World, "users")
        users_df == load_sheet_df(w1, "users")
        idx == first_index(users_df, "username", selected_user)
        w2 == write_sheet_df(w1, "users",
                  [users_df EXCEPT !.rows[idx].password_hash = Hasher_hash(new_pw),
                                   !.rows[idx].role = "master"])
        reject(msg) == /\ sheets' = w1.sheets
                       /\ cache' = w1.cache
                       /\ lastOp' = Op("teacher_change_pw", msg)
    IN  /\ LoggedIn
        /\ \E i \in DOMAIN users_df.rows : users_df.rows[i].username = selected_user
        /\ IF teacher_management_refused(current_role(w1)) THEN reject("error_not_master")
           ELSE IF new_pw = "" THEN reject("error_missing_input")
           ELSE /\ sheets' = w2.sheets
                /\ cache' = w2.cache
                /\ lastOp' = Op("teacher_change_pw", "success")
        /\ UNCHANGED <<session, clock, everIssued, pending, peers>>

\* button "change_pw"
TeacherChangePassword(selected_user, new_pw) ==
    LET w1 == after_load(World, "users")
        users_df == load_sheet_df(w1, "users")
        idx == first_index(users_df, "username", selected_user)
        w2 == write_sheet_df(w1, "users",
                  [users_df EXCEPT !.rows[idx].password_hash = Hasher_hash(new_pw)])
        reject(msg) == /\ sheets' = w1.sheets
                       /\ cache' = w1.cache
                       /\ lastOp' = Op("teacher_change_pw", msg)
    IN  /\ LoggedIn
        /\ \E i \in DOMAIN users_df.rows : users_df.rows[i].username = selected_user
        /\ IF teacher_management_refused(current_role(w1)) THEN reject("error_not_master")
           ELSE IF new_pw = "" THEN reject("error_missing_input")
           ELSE /\ sheets' = w2.sheets
                /\ cache' = w2.cache
                /\ lastOp' = Op("teacher_change_pw", "success")
        /\ UNCHANGED <<session, clock, everIssued, pending, peers>>

\* mutant: the delete button is offered for every account
is_master_account_never(selected_user) == FALSE

\* "if selected_user == 'master'"
is_master_account(selected_user) == selected_user = "master"

\* button "delete_user"; the button is not offered for master
TeacherDelete(selected_user) ==
    LET w1 == after_load(World, "users")
        users_df == load_sheet_df(w1, "users")
        w2 == write_sheet_df(w1, "users", rows_not_in(users_df, "username", {selected_user}))
        reject(msg) == /\ sheets' = w1.sheets
                       /\ cache' = w1.cache
                       /\ lastOp' = Op("teacher_delete", msg)
    IN  /\ LoggedIn
        /\ \E i \in DOMAIN users_df.rows : users_df.rows[i].username = selected_user
        /\ IF teacher_management_refused(current_role(w1)) THEN reject("error_not_master")
           ELSE IF is_master_account(selected_user) THEN reject("info_master_kept")
           ELSE /\ sheets' = w2.sheets
                /\ cache' = w2.cache
                /\ lastOp' = Op("teacher_delete", "success")
        /\ UNCHANGED <<session, clock, everIssued, pending, peers>>

----------------------------------------------------------------------------
(* Specification *)

TargetGradeSets == {{}, {"J2", "J3", "H3"}, {"H3"}}

\* the choices the selectboxes of the pages offer in the current state
CurrentStudentIds == student_choices(fetch_sheet_df(World, "students"))
CurrentRecordIds(sheet_name) ==
    {r.id : r \in Range(fetch_sheet_df(World, sheet_name).rows)}
CurrentUsernames == {r.username : r \in Range(fetch_sheet_df(World, "users").rows)}

Next ==
    \/ \E u \in CurrentUsernames, p \in Passwords : Login(u, p)
    \/ Logout
    \/ \E name \in NameInputs, grade \in GradeInputs,
          reg \in RegularSelections, mock \in MockSelections :
          StudentCreate(name, grade, reg, mock)
    \/ \E sid \in CurrentStudentIds, name \in EditNameInputs, grade \in GradeInputs,
          school \in SchoolInputs :
          StudentUpdate(sid, name, grade, school)
    \/ \E g \in TargetGradeSets : BulkPromote(g)
    \/ \E d \in SUBSET CurrentStudentIds, p \in Passwords : StudentDelete(d, p)
    \/ \E sid \in CurrentStudentIds, cat \in ExamCategories,
          nm \in MockNameInputs \cup {REGULAR_EXAM_NAMES[1]},
          dt \in ExamDateInputs, sc \in ScoreInputs :
          ExamCreate(sid, cat, nm, dt, sc)
    \/ \E sid \in CurrentStudentIds, id \in CurrentRecordIds("exam_results") :
          ExamDelete(sid, id)
    \/ \E sid \in CurrentStudentIds, dt \in DateInputs, a \in AttitudeInputs :
          CoachingSave(sid, dt, a)
    \/ \E sid \in CurrentStudentIds, id \in CurrentRecordIds("coaching_reports"),
          dt \in DateInputs, a \in AttitudeInputs :
          CoachingEdit(sid, id, dt, a)
    \/ \E sid \in CurrentStudentIds, id \in CurrentRecordIds("coaching_reports") :
          CoachingDelete(sid, id)
    \/ \E sid \in CurrentStudentIds, g \in EikenGradeInputs, dt \in DateInputs,
          c \in CorrectInputs : EikenCreate(sid, g, dt, c)
    \/ \E sid \in CurrentStudentIds, id \in CurrentRecordIds("eiken_records") :
          EikenDelete(sid, id)
    \/ \E u \in UsernameInputs, n \in TeacherNameInputs, p \in NewPasswordInputs :
          TeacherCreate(u, n, p)
    \/ \E u \in CurrentUsernames, p \in NewPasswordInputs : TeacherChangePassword(u, p)
    \/ \E u \in CurrentUsernames : TeacherDelete(u)

Spec == Init /\ [][Next]_vars

----------------------------------------------------------------------------
(* Sub-machines: the same handlers, each specification running the pages a  *)
(* group of properties is about, with the form inputs that group needs.     *)

LoginStep == \E u \in {str(v) : v \in CurrentUsernames}, p \in Passwords : Login(u, p)

\* students and the rows that reference them
NextStudents ==
    \/ LoginStep
    \/ \E name \in NameInputs : StudentCreate(name, "J3", <<>>, <<>>)
    \/ \E d \in SUBSET CurrentStudentIds, p \in Passwords : StudentDelete(d, p)
    \/ \E sid \in CurrentStudentIds :
          ExamCreate(sid, "teiki", REGULAR_EXAM_NAMES[1], "2024-05-01", 75)
    \/ \E sid \in CurrentStudentIds : CoachingSave(sid, "2024-05-01", 3)
    \/ \E sid \in CurrentStudentIds : EikenCreate(sid, "k3", "2024-05-01", 10)

SpecStudents == Init /\ [][NextStudents]_vars

\* the record tables, with create and delete-by-id
NextRecords ==
    \/ LoginStep
    \/ StudentCreate("Taro", "J3", <<>>, <<>>)
    \/ \E sid \in CurrentStudentIds :
          ExamCreate(sid, "teiki", REGULAR_EXAM_NAMES[1], "2024-05-01", 75)
    \/ \E sid \in CurrentStudentIds, id \in CurrentRecordIds("exam_results") :
          ExamDelete(sid, id)
    \/ \E sid \in CurrentStudentIds, dt \in DateInputs : CoachingSave(sid, dt, 3)
    \/ \E sid \in CurrentStudentIds, id \in CurrentRecordIds("coaching_reports") :
          CoachingDelete(sid, id)
    \/ \E sid \in CurrentStudentIds, dt \in DateInputs : EikenCreate(sid, "k3", dt, 10)
    \/ \E sid \in CurrentStudentIds, id \in CurrentRecordIds("eiken_records") :
          EikenDelete(sid, id)

SpecRecords == Init /\ [][NextRecords]_vars

\* the coaching reports of one or two students
NextCoaching ==
    \/ LoginStep
    \/ StudentCreate("Taro", "J3", <<>>, <<>>)
    \/ \E sid \in CurrentStudentIds, dt \in DateInputs, a \in AttitudeInputs :
          CoachingSave(sid, dt, a)
    \/ \E sid \in CurrentStudentIds, id \in CurrentRecordIds("coaching_reports"),
          dt \in DateInputs, a \in AttitudeInputs :
          CoachingEdit(sid, id, dt, a)
    \/ \E sid \in CurrentStudentIds, id \in CurrentRecordIds("coaching_reports") :
          CoachingDelete(sid, id)

SpecCoaching == Init /\ [][NextCoaching]_vars

\* a master and a teacher account using the master-only sections on a
\* store of at most one student
NextAuth ==
    \/ LoginStep
    \/ Logout
    \/ sheets.students.rows = <<>> /\ StudentCreate("Taro", "J3", <<>>, <<>>)
    \/ \E g \in TargetGradeSets : BulkPromote(g)
    \/ \E d \in SUBSET CurrentStudentIds : StudentDelete(d, MASTER_PASSWORD)
    \/ TeacherCreate("t1", "", "pw1")
    \/ \E u \in CurrentUsernames : TeacherChangePassword(u, "pw1")
    \/ \E u \in CurrentUsernames : TeacherDelete(u)

SpecAuth == Init /\ [][NextAuth]_vars

\* the create forms with blank and non-blank required fields
NextValidation ==
    \/ LoginStep
    \/ \E name \in NameInputs, reg \in RegularSelections, mock \in MockSelections :
          StudentCreate(name, "H3", reg, mock)
    \/ \E sid \in CurrentStudentIds, nm \in MockNameInputs,
          dt \in ExamDateInputs, sc \in ScoreInputs :
          ExamCreate(sid, "moshi", nm, dt, sc)
    \/ \E u \in UsernameInputs, n \in TeacherNameInputs, p \in NewPasswordInputs :
          TeacherCreate(u, n, p)

SpecValidation == Init /\ [][NextValidation]_vars

\* registering, editing and promoting students
NextGrades ==
    \/ LoginStep
    \/ \E grade \in GradeInputs, reg \in RegularSelections, mock \in MockSelections :
          StudentCreate("Taro", grade, reg, mock)
    \/ \E sid \in CurrentStudentIds : StudentUpdate(sid, "Jiro", "J3", "Kita")
    \/ \E g \in TargetGradeSets : BulkPromote(g)

SpecGrades == Init /\ [][NextGrades]_vars

\* one write path of each kind on a store of at most one student: create,
\* update, upsert, delete by id, cascade delete and account management
NextWrites ==
    \/ LoginStep
    \/ sheets.students.rows = <<>> /\ StudentCreate("Taro", "J3", <<>>, <<>>)
    \/ \E sid \in CurrentStudentIds : StudentUpdate(sid, "Jiro", "J3", "Kita")
    \/ \E sid \in CurrentStudentIds : CoachingSave(sid, "2024-05-01", 3)
    \/ \E sid \in CurrentStudentIds, id \in CurrentRecordIds("coaching_reports") :
          CoachingDelete(sid, id)
    \/ \E d \in SUBSET CurrentStudentIds : StudentDelete(d, MASTER_PASSWORD)
    \/ TeacherCreate("t1", "", "pw1")

SpecWrites == Init /\ [][NextWrites]_vars

\* writes that raise, on a store of at most one student
NextFailures ==
    \/ LoginStep
    \/ sheets.students.rows = <<>> /\ StudentCreate("Taro", "J3", <<>>, <<>>)
    \/ \E sid \in CurrentStudentIds :
          ExamCreate(sid, "teiki", REGULAR_EXAM_NAMES[1], "2024-05-01", 75)
    \/ \E sid \in CurrentStudentIds : CoachingSave(sid, "2024-05-01", 3)
    \/ GradeTrackerView
    \/ \E sid \in CurrentStudentIds, stage \in WriteStages :
          ExamCreateRaising(sid, "teiki", REGULAR_EXAM_NAMES[1], stage)
    \/ \E d \in SUBSET CurrentStudentIds, failing \in DependentSheets,
          stage \in WriteStages :
          StudentDeleteRaising(d, MASTER_PASSWORD, failing, stage)

SpecFailures == Init /\ [][NextFailures]_vars

\* two runs of the exam create on a store of one student, interleaved at
\* their reads and writes; writer A enters May 1st, writer B May 2nd
NextRace ==
    \/ LoginStep
    \/ sheets.students.rows = <<>> /\ StudentCreate("Taro", "J3", <<>>, <<>>)
    \/ \E sid \in CurrentStudentIds :
          ExamCreateRead("A", sid, "teiki", REGULAR_EXAM_NAMES[1], "2024-05-01", 75)
    \/ \E sid \in CurrentStudentIds :
          ExamCreateRead("B", sid, "teiki", REGULAR_EXAM_NAMES[1], "2024-05-02", 75)
    \/ \E wr \in Writers : ExamCreateWrite(wr)
    \/ GradeTrackerView

SpecRace == Init /\ [][NextRace]_vars

\* the teacher management page: accounts are created, get a new password
\* and are deleted
NextUsers ==
    \/ LoginStep
    \/ Logout
    \/ \E u \in NewUsernameInputs, p \in NewPasswordInputs : TeacherCreate(u, "", p)
    \/ \E u \in CurrentUsernames : TeacherChangePassword(u, "pw1")
    \/ \E u \in CurrentUsernames : TeacherDelete(u)

SpecUsers == Init /\ [][NextUsers]_vars

\* two teachers create and edit the exam results and the eiken records of
\* one student
NextEdits ==
    \/ LoginStep
    \/ Logout
    \/ TeacherCreate("t1", "", "pw1")
    \/ sheets.students.rows = <<>> /\ StudentCreate("Taro", "J3", <<>>, <<>>)
    \/ \E sid \in CurrentStudentIds :
          ExamCreate(sid, "teiki", REGULAR_EXAM_NAMES[1], "2024-05-01", 75)
    \/ \E sid \in CurrentStudentIds, id \in CurrentRecordIds("exam_results"),
          expired \in BOOLEAN :
          ExamUpdate(sid, id, "teiki", REGULAR_EXAM_NAMES[1], "2024-05-01", 80, expired)
    \/ \E sid \in CurrentStudentIds : EikenCreate(sid, "k3", "2024-05-01", 10)
    \/ \E sid \in CurrentStudentIds, id \in CurrentRecordIds("eiken_records"),
          g \in {"k3", "k5"} : EikenUpdate(sid, id, g, 12)

SpecEdits == Init /\ [][NextEdits]_vars

\* the delete confirmation on a store of at most one student and its
\* exam results and coaching reports
NextDelete ==
    \/ LoginStep
    \/ sheets.students.rows = <<>> /\ StudentCreate("Taro", "J3", <<>>, <<>>)
    \/ \E sid \in CurrentStudentIds :
          ExamCreate(sid, "teiki", REGULAR_EXAM_NAMES[1], "2024-05-01", 75)
    \/ \E sid \in CurrentStudentIds : CoachingSave(sid, "2024-05-01", 3)
    \/ \E d \in SUBSET CurrentStudentIds, p \in Passwords : StudentDelete(d, p)

SpecDelete == Init /\ [][NextDelete]_vars

\* generate_new_student_id as a function of the four tables: the stored
\* student_id cells are drawn from blank, unparseable and numeric texts
MaxAllocStudents == 2     \* rows of students in the drawn store

IdCells == {BLANK_NUM, BAD_NUM, FIRST_STUDENT_ID, FIRST_STUDENT_ID + 2}

\* a dependent table of the drawn store holds no row or one row
DependentDraws == {<<>>} \cup {<<c>> : c \in IdCells}

SeqsUpTo(S, n) == UNION {[1 .. k -> S] : k \in 0 .. n}

\* a stored sheet whose rows carry the given student_id cells
DrawnSheet(sheet_name, cells) ==
    [header |-> SHEET_SCHEMAS[sheet_name],
     rows |-> [i \in DOMAIN cells |->
                 [c \in Range(SHEET_SCHEMAS[sheet_name]) |->
                    IF c = "student_id" THEN cells[i]
                    ELSE IF c = "id" THEN i
                    ELSE BlankCell(c)]]]

InitAlloc ==
    /\ \E st \in SeqsUpTo(IdCells, MaxAllocStudents),
          ex \in DependentDraws, co \in DependentDraws, ei \in DependentDraws :
          sheets = [users |-> ensure_master_user(init_sheets).sheets.users,
                    students |-> DrawnSheet("students", st),
                    exam_results |-> DrawnSheet("exam_results", ex),
                    coaching_reports |-> DrawnSheet("coaching_reports", co),
                    eiken_records |-> DrawnSheet("eiken_records", ei)]
    /\ cache = [n \in SHEET_NAMES |-> NoEntry]
    /\ pending = [wr \in Writers |-> Idle]
    /\ peers = [i \in Instances |-> [n \in SHEET_NAMES |-> NoPeerEntry]]
    /\ session = [username |-> MASTER_USERNAME, name |-> MASTER_NAME]
    /\ clock = 0
    /\ lastOp = NoOp
    /\ everIssued = [students |-> {}, exam_results |-> {}, coaching_reports |-> {},
                     eiken_records |-> {}]

NextAlloc == \E name \in NameInputs : StudentCreate(name, "J3", <<>>, <<>>)

SpecAlloc == InitAlloc /\ [][NextAlloc]_vars

\* ensure_master_user at the start of a script run, on a users table as it
\* may be found in the spreadsheet
MaxDrawnUsers == 3

DrawnUserRows ==
    {[username |-> u, name |-> "", password_hash |-> Hasher_hash("pw1"),
      role |-> IF u = MASTER_USERNAME THEN "master" ELSE "teacher"] :
        u \in {"", "t1", "007", "master"}}

InitMaster ==
    /\ \E us \in SeqsUpTo(DrawnUserRows, MaxDrawnUsers), cached \in BOOLEAN :
          /\ sheets = [init_sheets.sheets EXCEPT !.users.rows = us]
          /\ cache = IF cached
                     THEN after_load([sheets |-> sheets, cache |-> init_sheets.cache],
                                     "users").cache
                     ELSE init_sheets.cache
    /\ pending = [wr \in Writers |-> Idle]
    /\ peers = [i \in Instances |-> [n \in SHEET_NAMES |-> NoPeerEntry]]
    /\ session = [username |-> "", name |-> ""]
    /\ clock = 0
    /\ lastOp = NoOp
    /\ everIssued = [students |-> {}, exam_results |-> {}, coaching_reports |-> {},
                     eiken_records |-> {}]

\* main(): ensure_master_user() of one script run; two runs are followed
EnsureMasterRun ==
    /\ lastOp.n < 2
    /\ sheets' = ensure_master_user(World).sheets
    /\ cache' = ensure_master_user(World).cache
    /\ lastOp' = [Op("ensure_master", "") EXCEPT !.n = lastOp.n + 1]
    /\ UNCHANGED <<session, clock, everIssued, pending, peers>>

SpecMaster == InitMaster /\ [][EnsureMasterRun]_vars

\* load_sheet_df on an exam_results sheet as it may be found in the
\* spreadsheet: the header row is the schema, the header init_sheets wrote,
\* or a hand-made one that lacks columns, adds one and is out of order
MaxDrawnRows == 2

DrawnHeaders ==
    {SHEET_SCHEMAS.exam_results, required_sheets.exam_results,
     <<"exam_name", "id", "memo">>}

InitRead ==
    /\ \E h \in DrawnHeaders,
          cells \in SeqsUpTo({1, 2} \X {"", "007", "mid"}, MaxDrawnRows) :
          sheets = [init_sheets.sheets EXCEPT
                      !.exam_results =
                         [header |-> h,
                          rows |-> [i \in DOMAIN cells |->
                                      [c \in Range(h) |->
                                         IF c = "id" THEN cells[i][1]
                                         ELSE IF c = "exam_name" THEN cells[i][2]
                                         ELSE BlankCell(c)]]]]
    /\ cache = init_sheets.cache
    /\ pending = [wr \in Writers |-> Idle]
    /\ peers = [i \in Instances |-> [n \in SHEET_NAMES |-> NoPeerEntry]]
    /\ session = [username |-> "", name |-> ""]
    /\ clock = 0
    /\ lastOp = NoOp
    /\ everIssued = [students |-> {}, exam_results |-> {}, coaching_reports |-> {},
                     eiken_records |-> {}]

\* a page calls load_sheet_df(sheet_name)
TableRead(sheet_name) ==
    /\ cache' = after_load(World, sheet_name).cache
    /\ lastOp' = Op("read", sheet_name)
    /\ UNCHANGED <<sheets, session, clock, everIssued, pending, peers>>

SpecRead == InitRead /\ [][\E n \in SHEET_NAMES : TableRead(n)]_vars

\* record creates on a store whose record tables already hold rows: one
\* table holds the drawn id cells (blank, unparseable or numeric), the
\* other two hold one row with a higher id; every row names a student id;
\* each table gets one new row
RecordIdCells == {BLANK_NUM, BAD_NUM, 3, 5}

InitIds ==
    /\ \E n \in DependentSheets, cells \in SeqsUpTo(RecordIdCells, MaxDrawnRows) :
          sheets = [m \in SHEET_NAMES |->
                      IF m \in DependentSheets
                      THEN [header |-> SHEET_SCHEMAS[m],
                            rows |-> [i \in DOMAIN (IF m = n THEN cells ELSE <<9>>) |->
                                        [c \in Range(SHEET_SCHEMAS[m]) |->
                                           IF c = "id"
                                           THEN (IF m = n THEN cells ELSE <<9>>)[i]
                                           ELSE IF c = "student_id" THEN FIRST_STUDENT_ID
                                           ELSE BlankCell(c)]]]
                      ELSE ensure_master_user(init_sheets).sheets[m]]
    /\ cache = [n \in SHEET_NAMES |-> NoEntry]
    /\ pending = [wr \in Writers |-> Idle]
    /\ peers = [i \in Instances |-> [n \in SHEET_NAMES |-> NoPeerEntry]]
    /\ session = [username |-> MASTER_USERNAME, name |-> MASTER_NAME]
    /\ clock = 0
    /\ lastOp = NoOp
    /\ everIssued = [students |-> {}, exam_results |-> {}, coaching_reports |-> {},
                     eiken_records |-> {}]

NextIds ==
    \/ sheets.students.rows = <<>> /\ StudentCreate("Taro", "J3", <<>>, <<>>)
    \/ /\ everIssued.exam_results = {}
       /\ \E sid \in CurrentStudentIds :
             ExamCreate(sid, "teiki", REGULAR_EXAM_NAMES[1], "2024-05-01", 75)
    \/ /\ everIssued.coaching_reports = {}
       /\ \E sid \in CurrentStudentIds : CoachingSave(sid, "2024-05-01", 3)
    \/ /\ everIssued.eiken_records = {}
       /\ \E sid \in CurrentStudentIds : EikenCreate(sid, "k3", "2024-05-01", 10)

SpecIds == InitIds /\ [][NextIds]_vars

\* mutant: an entry is served whatever its age
PeerRead_never_expiring(i, sheet_name) ==
    LET e == peers[i][sheet_name]
    IN  /\ peers' = IF e.present THEN peers
                    ELSE [peers EXCEPT ![i][sheet_name] =
                            [present |-> TRUE, df |-> fetch_sheet_df(World, sheet_name),
                             age |-> 0]]
        /\ lastOp' = Op("peer_read", sheet_name)
        /\ UNCHANGED <<sheets, cache, session, clock, everIssued, pending>>

\* load_sheet_df(sheet_name) in another server process: st.cache_data
\* serves the entry while its age is within the ttl and calls the function
\* body otherwise
PeerRead(i, sheet_name) ==
    LET e == peers[i][sheet_name]
    IN  /\ peers' = IF e.present /\ e.age <= CACHE_TTL THEN peers
                    ELSE [peers EXCEPT ![i][sheet_name] =
                            [present |-> TRUE, df |-> fetch_sheet_df(World, sheet_name),
                             age |-> 0]]
        /\ lastOp' = Op("peer_read", sheet_name)
        /\ UNCHANGED <<sheets, cache, session, clock, everIssued, pending>>

\* one tick of time passes: every cached entry gets older
Tick ==
    /\ \E i \in Instances, n \in SHEET_NAMES :
          peers[i][n].present /\ peers[i][n].age <= CACHE_TTL
    /\ peers' = [i \in Instances |-> [n \in SHEET_NAMES |->
                   IF peers[i][n].present /\ peers[i][n].age <= CACHE_TTL
                   THEN [peers[i][n] EXCEPT !.age = @ + 1] ELSE peers[i][n]]]
    /\ lastOp' = Op("tick", "")
    /\ UNCHANGED <<sheets, cache, session, clock, everIssued, pending>>

\* master keeps changing a password in this process while two other
\* processes read the users table
NextPeers ==
    \/ LoginStep
    \/ \E pw \in {"pw1", MASTER_PASSWORD} : TeacherChangePassword("master", pw)
    \/ \E i \in Instances : PeerRead(i, "users")
    \/ Tick

SpecPeers == Init /\ [][NextPeers]_vars

\* time does not stop
FairSpecPeers == SpecPeers /\ WF_vars(Tick)

----------------------------------------------------------------------------
(* Properties *)

Rows(sheet_name) == sheets[sheet_name].rows
RowSet(sheet_name) == Range(sheets[sheet_name].rows)


Created(op) == lastOp.op = op /\ lastOp.msg = "success"

\* C1: over student creates and cascading deletes, the id given to a new
\* student was never given to a student before
C1_StudentIdNeverReissued ==
    [][(lastOp'.op = "student_create" /\ lastOp'.msg = "success"
        /\ clock' = clock + 1)
       => lastOp'.id \notin everIssued.students]_vars

\* the sheet a create handler appends to
SheetOfCreate(op) ==
    CASE op = "exam_create" -> "exam_results"
      [] op = "coaching_save" -> "coaching_reports"
      [] op = "eiken_create" -> "eiken_records"

\* C2: in each record table the id of a newly created row is greater than
\* every id handed out in that table before, also after deletions
C2_RecordIdNeverReused ==
    [][(lastOp'.op \in {"exam_create", "coaching_save", "eiken_create"}
        /\ lastOp'.msg = "success" /\ clock' = clock + 1)
       => \A k \in everIssued[SheetOfCreate(lastOp'.op)] : lastOp'.id > k]_vars

\* the student_id cells of the four tables that parse as integers
ParseableStudentIds ==
    {v \in UNION {{r.student_id : r \in RowSet(n)} :
                     n \in DependentSheets \cup {"students"}} : v > 0}

\* C3: a successful registration gets max+1 of the parseable student_id
\* cells of students, exam_results, coaching_reports and eiken_records
\* (blank and unparseable cells skipped), 250001 when there is none, so
\* the new id exceeds every parseable student_id of the four tables
C3_NewStudentIdIsMaxPlusOne ==
    [][(lastOp'.op = "student_create" /\ lastOp'.msg = "success"
        /\ clock' = clock + 1)
       => /\ lastOp'.id = IF ParseableStudentIds = {} THEN 250001
                          ELSE SetMax(ParseableStudentIds) + 1
          /\ \A v \in ParseableStudentIds : lastOp'.id > v
          /\ sheets'.students.rows[Len(sheets'.students.rows)].student_id
                = lastOp'.id]_vars

\* C3 witness: a registration succeeded although the store holds a blank
\* and an unparseable student_id and an orphaned dependent row whose
\* student_id exceeds every other student's
C3_Witness ==
    /\ Created("student_create")
    /\ \E n \in DependentSheets : \E r \in RowSet(n) :
          /\ r.student_id = lastOp.id - 1
          /\ \A q \in RowSet("students") : q.student_id # r.student_id
    /\ \E r \in RowSet("students") : r.student_id = BLANK_NUM
    /\ \E n \in DependentSheets \cup {"students"} : \E r \in RowSet(n) :
          r.student_id = BAD_NUM

\* the stored coaching rows of one (student_id, date) key
KeyRows(key) ==
    {i \in DOMAIN Rows("coaching_reports") :
        /\ Rows("coaching_reports")[i].student_id = key[1]
        /\ Rows("coaching_reports")[i].date = key[2]}

\* C4: a report saved a second time for the same student and date, the
\* table holding at most one row for that key, leaves exactly one row for
\* the key with the id and the created_at of the first save, and hands out
\* no new id
C4_UpsertKeepsOneRow ==
    [][(/\ lastOp.op = "coaching_save"
        /\ lastOp'.op = "coaching_save"
        /\ lastOp'.key = lastOp.key
        /\ clock' = clock + 1
        /\ Cardinality(KeyRows(lastOp.key)) <= 1)
       => /\ Cardinality(KeyRows(lastOp.key)) = 1
          /\ \E i \in DOMAIN sheets'.coaching_reports.rows :
                LET r == sheets'.coaching_reports.rows[i]
                    first == Rows("coaching_reports")[CHOOSE j \in KeyRows(lastOp.key) : TRUE]
                IN  /\ r.student_id = lastOp.key[1] /\ r.date = lastOp.key[2]
                    /\ r.id = lastOp.id
                    /\ r.id = first.id
                    /\ r.created_at = first.created_at
                    /\ \A j \in DOMAIN sheets'.coaching_reports.rows :
                          LET q == sheets'.coaching_reports.rows[j]
                          IN  (q.student_id = r.student_id /\ q.date = r.date) => j = i
          /\ lastOp'.id = lastOp.id
          /\ everIssued' = everIssued]_vars

\* C4 witness: a second save has overwritten the report of its key, which
\* was first stored at an earlier time
C4_Witness ==
    /\ lastOp.op = "coaching_save"
    /\ lastOp.msg = "warning_overwritten"
    /\ \E i \in KeyRows(lastOp.key) :
          /\ Rows("coaching_reports")[i].id = lastOp.id
          /\ Rows("coaching_reports")[i].created_at < clock

\* the coaching row with the given id as load_sheet_df reads it back
ReadBackCoaching(id) ==
    LET df == fetch_sheet_df(World, "coaching_reports")
    IN  {r \in Range(df.rows) : r.id = id}

\* C5: the stored row of a saved report carries updated_at: equal to
\* created_at after the first insert, and the time of the second save
\* (later than created_at) after an overwrite
C5_StoredRowCarriesUpdatedAt ==
    lastOp.op = "coaching_save" =>
        \A r \in ReadBackCoaching(lastOp.id) :
            /\ "updated_at" \in DOMAIN r
            /\ IF lastOp.msg = "success"
               THEN r["updated_at"] = r.created_at
               ELSE r["updated_at"] = clock /\ r.created_at < clock

\* C6: the coaching_reports table never holds two rows for one
\* (student_id, date) pair
C6_OneRowPerStudentAndDate ==
    \A i, j \in DOMAIN Rows("coaching_reports") :
        (/\ Rows("coaching_reports")[i].student_id = Rows("coaching_reports")[j].student_id
         /\ Rows("coaching_reports")[i].date = Rows("coaching_reports")[j].date)
        => i = j

\* the rows of a stored table that do not belong to the students in ids
RowsOutside(sheet_name, ids) ==
    SelectSeq(Rows(sheet_name), LAMBDA r : r.student_id \notin ids)

StudentSheets == {"students"} \cup DependentSheets

\* C7: a successful delete of the id set D leaves in each of the four
\* tables exactly the rows whose student_id is not in D, in their order
C7_CascadeComplete ==
    [][(lastOp'.op = "student_delete" /\ lastOp'.msg = "success")
       => \A n \in StudentSheets :
             sheets'[n].rows = RowsOutside(n, lastOp'.ids)]_vars

\* C7 witness: after a successful delete a student and one of its dependent
\* rows are still stored while an id issued in that dependent table is gone
C7_Witness ==
    /\ lastOp.op = "student_delete" /\ lastOp.msg = "success"
    /\ Rows("students") # <<>>
    /\ \E n \in DependentSheets :
          /\ \E r \in RowSet(n) : r.student_id \in {q.student_id : q \in RowSet("students")}
          /\ \E k \in everIssued[n] : k \notin {r.id : r \in RowSet(n)}

\* the stored users rows named master
StoredMasterRows == SelectSeq(Rows("users"), LAMBDA r : r.username = "master")

\* the admin password is empty, there is no master row, or the password
\* does not verify against the stored master hash
AdminPasswordRefused(p) ==
    \/ p = ""
    \/ StoredMasterRows = <<>>
    \/ ~ checkpw(p, StoredMasterRows[1].password_hash)

\* C8: a delete request with an empty or non-verifying admin password (or
\* without a master row) leaves the four student tables unchanged
C8_RefusedDeleteWritesNothing ==
    [][\A d \in SUBSET CurrentStudentIds, p \in Passwords :
          (AdminPasswordRefused(p) /\ StudentDelete(d, p))
          => \A n \in StudentSheets : sheets'[n] = sheets[n]]_vars

\* C8 witness: a wrong admin password was refused for a stored student
\* that has a dependent row
C8_Witness ==
    /\ lastOp.op = "student_delete" /\ lastOp.msg = "error_password"
    /\ \E n \in DependentSheets :
          \E r \in RowSet(n) :
             r.student_id \in {q.student_id : q \in RowSet("students")}

\* the role of the logged-in user according to the stored users table
StoredRole ==
    current_role([sheets |-> sheets, cache |-> [n \in SHEET_NAMES |-> NoEntry]])

\* a step of one of the master-only operations
MasterOnlyStep ==
    \/ \E g \in TargetGradeSets : BulkPromote(g)
    \/ \E d \in SUBSET CurrentStudentIds, p \in Passwords : StudentDelete(d, p)
    \/ \E u \in UsernameInputs, n \in TeacherNameInputs, p \in NewPasswordInputs :
          TeacherCreate(u, n, p)
    \/ \E u \in CurrentUsernames, p \in NewPasswordInputs : TeacherChangePassword(u, p)
    \/ \E u \in CurrentUsernames : TeacherDelete(u)

\* C9: while the logged-in user's role is not master, no step changes the
\* users table or removes a student, and the master-only operations change
\* no table at all
C9_MasterOnlyOperationsGated ==
    [][(LoggedIn /\ StoredRole # "master")
       => /\ sheets'.users = sheets.users
          /\ \A r \in RowSet("students") :
                \E q \in Range(sheets'.students.rows) : q.student_id = r.student_id
          /\ MasterOnlyStep => sheets' = sheets]_vars

\* C9 witness: teacher t1 was refused an account deletion while a student
\* is stored
C9_Witness ==
    /\ session.username = "t1"
    /\ lastOp.op = "teacher_delete" /\ lastOp.msg = "error_not_master"
    /\ Rows("students") # <<>>

\* nothing was written and no id was handed out
Unwritten == sheets' = sheets /\ everIssued' = everIssued

\* C10: a student create with a blank name, a mock exam create with a
\* blank exam name and an account create with a blank username or password
\* write nothing and hand out no id; a student create with a name appends
\* one row to students and changes nothing else
C10_RejectedCreateWritesNothing ==
    [][/\ (/\ lastOp'.op = "student_create"
           /\ \E g \in GradeInputs, reg \in RegularSelections, mock \in MockSelections :
                 StudentCreate("", g, reg, mock)) => Unwritten
       /\ (/\ lastOp'.op = "exam_create"
           /\ \E sid \in CurrentStudentIds, dt \in ExamDateInputs, sc \in ScoreInputs :
                 ExamCreate(sid, "moshi", "", dt, sc)) => Unwritten
       /\ (/\ lastOp'.op = "teacher_create"
           /\ \E u \in UsernameInputs, n \in TeacherNameInputs, p \in NewPasswordInputs :
                 (u = "" \/ p = "") /\ TeacherCreate(u, n, p)) => Unwritten
       /\ (/\ lastOp'.op = "student_create"
           /\ \E name \in NameInputs \ {""}, g \in GradeInputs,
                 reg \in RegularSelections, mock \in MockSelections :
                 StudentCreate(name, g, reg, mock))
          => /\ Len(sheets'.students.rows) = Len(Rows("students")) + 1
             /\ SubSeq(sheets'.students.rows, 1, Len(Rows("students"))) = Rows("students")
             /\ sheets'.students.header = sheets.students.header
             /\ \A other \in (SHEET_NAMES \ {"students"}) :
                   sheets'[other] = sheets[other]]_vars

\* C10 witness: a mock exam without a name was refused for the second of
\* two registered students
C10_Witness ==
    /\ lastOp.op = "exam_create" /\ lastOp.msg = "error_exam_name"
    /\ Len(Rows("students")) = 2

\* the stored students row with the given student_id, before and after
StudentRowOf(rows, id) ==
    rows[CHOOSE i \in DOMAIN rows : rows[i].student_id = id]

LadderSuccessor(grade) ==
    IF grade \in DOMAIN PROMOTION_MAP THEN PROMOTION_MAP[grade] ELSE grade

\* C12: a successful bulk promotion with grade set G moves every student
\* whose grade is in G one step up the ladder (terminal grades stay) and
\* leaves every other student, and every other field, as stored
C12_BulkPromotionOneStep ==
    [][\A G \in TargetGradeSets :
          (lastOp'.op = "bulk_promote" /\ lastOp'.msg = "success" /\ BulkPromote(G))
          => /\ Len(sheets'.students.rows) = Len(Rows("students"))
             /\ \A i \in DOMAIN Rows("students") :
                   LET old == Rows("students")[i]
                   IN  sheets'.students.rows[i] =
                          IF old.grade \in G
                          THEN [old EXCEPT !.grade = LadderSuccessor(old.grade)]
                          ELSE old]_vars

\* C12 witness: a promotion of {J2, J3, H3} has moved a J2 student to J3
\* (not on to H1) next to a student whose terminal grade H3 stayed
C12_Witness ==
    /\ lastOp.op = "bulk_promote" /\ lastOp.msg = "success" /\ lastOp.n = 2
    /\ \E r \in RowSet("students") : r.grade = "J3"
    /\ \E r \in RowSet("students") : r.grade = "H3"

\* the number of students rows whose grade a step has changed
GradesChanged ==
    Cardinality({i \in DOMAIN Rows("students") :
                    sheets'.students.rows[i].grade # Rows("students")[i].grade})

\* C13: the count a successful bulk promotion reports is the number of
\* students rows whose grade it changed
C13_ReportedCountIsChangedCount ==
    [][(lastOp'.op = "bulk_promote" /\ lastOp'.msg = "success")
       => lastOp'.n = GradesChanged]_vars

\* C14: in every state, every write so far having returned, the next
\* load_sheet_df of each table returns the declared columns and exactly the
\* rows now stored, whatever entry the cache held before the write
C14_ReadAfterWrite ==
    \A n \in SHEET_NAMES :
        LET next_read == load_sheet_df(World, n)
        IN  /\ next_read.rows = Rows(n)
            /\ next_read.columns = SHEET_SCHEMAS[n]

\* C14 witness: an overwrite of a stored coaching report, whose handler had
\* the table in the cache before it wrote, left no cached entry behind
C14_Witness ==
    /\ lastOp.op = "coaching_save" /\ lastOp.msg = "warning_overwritten"
    /\ ~ cache.coaching_reports.present
    /\ Rows("coaching_reports") # <<>>

\* C15: an exam create whose write raises leaves every cached entry that
\* existed before it present and unchanged
C15_FailedWriteKeepsCache ==
    [][(/\ lastOp'.msg = "exception"
        /\ \E sid \in CurrentStudentIds, cat \in ExamCategories,
              nm \in Range(REGULAR_EXAM_NAMES) \cup MockNameInputs,
              stage \in WriteStages : ExamCreateRaising(sid, cat, nm, stage))
       => \A n \in SHEET_NAMES : cache[n].present => cache'[n] = cache[n]]_vars

\* C15 witness: the write of exam_results raised after the sheet was
\* cleared, and the cache still holds the rows the page had loaded
C15_Witness ==
    /\ lastOp.op = "exam_create" /\ lastOp.msg = "exception"
    /\ Rows("exam_results") = <<>>
    /\ cache.exam_results.present
    /\ cache.exam_results.df.rows # <<>>

\* C17: when the write of a dependent table raises during the cascade, the
\* students rows of D are gone, the dependent tables written before it hold
\* no row of D, and the tables not reached (and the failing one, when it
\* raised before anything was cleared) are as they were
C17_PartialCascadeNotRolledBack ==
    [][\A d \in SUBSET CurrentStudentIds, p \in Passwords, stage \in WriteStages,
          k \in 1..3 :
          LET order == <<"exam_results", "coaching_reports", "eiken_records">>
          IN  (lastOp'.msg = "exception"
               /\ StudentDeleteRaising(d, p, order[k], stage))
              => /\ sheets'.students.rows = RowsOutside("students", d)
                 /\ \A j \in 1..(k - 1) :
                       sheets'[order[j]].rows = RowsOutside(order[j], d)
                 /\ \A j \in (k + 1)..3 : sheets'[order[j]] = sheets[order[j]]
                 /\ stage = "clear" => sheets'[order[k]] = sheets[order[k]]]_vars

\* C17 witness: the cascade stopped at coaching_reports; the student is
\* gone, its exam results too, and its coaching report is still stored
C17_Witness ==
    /\ lastOp.op = "student_delete" /\ lastOp.msg = "exception"
    /\ Rows("students") = <<>>
    /\ Rows("exam_results") = <<>> /\ everIssued.exam_results # {}
    /\ \E r \in RowSet("coaching_reports") : r.student_id \in lastOp.ids

\* C16: when a run writes after another run that had read the same
\* snapshot of exam_results has written, the table becomes the later run's
\* snapshot plus its own row, the earlier run's row is gone, and both runs
\* have reported success
C16_LaterWriterWins ==
    [][\A wr \in Writers, o \in Writers :
          (/\ wr # o
           /\ pending[o].stage = "done"
           /\ pending[wr].stage = "read"
           /\ pending[wr].snapshot = pending[o].snapshot
           /\ sheets.exam_results.rows = ensure_columns(pending[o].df, "exam_results").rows
           /\ ExamCreateWrite(wr))
          => LET mine == ensure_columns(pending[wr].df, "exam_results").rows
                 theirs == ensure_columns(pending[o].df, "exam_results").rows
             IN  /\ sheets'.exam_results.rows = mine
                 /\ SubSeq(mine, 1, Len(mine) - 1) = pending[wr].snapshot
                 /\ theirs[Len(theirs)] \notin Range(sheets'.exam_results.rows)
                 /\ pending'[wr].msg = "success" /\ pending'[o].msg = "success"]_vars

\* C16 witness: both runs read the empty table, both have reported success,
\* and the table holds one row
C16_Witness ==
    /\ pending["A"].stage = "done" /\ pending["B"].stage = "done"
    /\ pending["A"].snapshot = <<>> /\ pending["B"].snapshot = <<>>
    /\ pending["A"].msg = "success" /\ pending["B"].msg = "success"
    /\ Len(Rows("exam_results")) = 1

\* C18: with one writer and no failing write, every student_id stored in
\* exam_results, coaching_reports or eiken_records is the student_id of a
\* stored students row
C18_ReferencesNameStoredStudents ==
    \A n \in DependentSheets :
       \A r \in RowSet(n) :
          \E q \in RowSet("students") : q.student_id = r.student_id

\* C18 witness: a student has been deleted with success and two of the
\* dependent tables still hold a row
C18_Witness ==
    /\ lastOp.op = "student_delete" /\ lastOp.msg = "success" /\ lastOp.ids # {}
    /\ \E n \in DependentSheets :
          \E m \in DependentSheets \ {n} : Rows(n) # <<>> /\ Rows(m) # <<>>
    /\ \E k \in everIssued.students : k \notin {q.student_id : q \in RowSet("students")}

\* C19: through account creates, password changes and account deletes the
\* users table holds exactly one row named master, and a delete request
\* for master leaves every table as it is
C19_ExactlyOneMasterRow ==
    /\ [](Len(StoredMasterRows) = 1)
    /\ [][\A u \in CurrentUsernames :
             (str(u) = "master" /\ TeacherDelete(u)) => sheets' = sheets]_vars

\* C19 witness: master asked for the delete of master while another
\* account is stored
C19_Witness ==
    /\ lastOp.op = "teacher_delete" /\ lastOp.msg = "info_master_kept"
    /\ Len(Rows("users")) > 1
    /\ Len(StoredMasterRows) = 1

\* C20: a create with a stored username writes nothing, a created account
\* has the role teacher, and the stored usernames are pairwise distinct
C20_UsernamesPairwiseDistinct ==
    /\ [](\A i \in DOMAIN Rows("users") : \A j \in DOMAIN Rows("users") :
             Rows("users")[i].username = Rows("users")[j].username => i = j)
    /\ [][\A u \in NewUsernameInputs, p \in NewPasswordInputs :
             (/\ \E r \in RowSet("users") : r.username = u
              /\ TeacherCreate(u, "", p)) => sheets' = sheets]_vars
    /\ [][(lastOp'.op = "teacher_create" /\ lastOp'.msg = "success")
             => sheets'.users.rows[Len(sheets'.users.rows)].role = "teacher"]_vars

\* C21: a run of ensure_master_user on a users table that has a master
\* row writes nothing; on a non-empty table without one the table read
\* afterwards is the table read before plus one master row with the role
\* master; a second run gives the table of the first
C21_EnsureMasterIdempotent ==
    [][EnsureMasterRun =>
         LET before == fetch_sheet_df(World, "users").rows
             after == fetch_sheet_df([sheets |-> sheets', cache |-> cache'], "users").rows
             has_master == \E i \in DOMAIN before : before[i].username = "master"
         IN  /\ has_master => sheets' = sheets
             /\ (before # <<>> /\ ~ has_master)
                   => /\ Len(after) = Len(before) + 1
                      /\ SubSeq(after, 1, Len(before)) = before
                      /\ after[Len(after)].username = "master"
                      /\ after[Len(after)].role = "master"
             /\ ensure_master_user([sheets |-> sheets', cache |-> cache']).sheets
                   = sheets']_vars

\* C21 witness: two runs on a table that held two accounts and no master
\* row: the table holds three rows, the last one named master
C21_Witness ==
    /\ lastOp.op = "ensure_master" /\ lastOp.n = 2
    /\ Len(Rows("users")) = 3
    /\ Rows("users")[3].username = "master"
    /\ Rows("users")[1].username # "master" /\ Rows("users")[2].username # "master"

\* C22: the table a read has returned has the columns of SHEET_SCHEMAS in
\* the declared order and one row per stored row; a declared column the
\* sheet lacks is the empty cell in every row, a declared column the sheet
\* has carries the stored cell as read, and no other column is present
C22_ReadReturnsDeclaredColumns ==
    \A n \in SHEET_NAMES :
       cache[n].present =>
          LET df == cache[n].df
              stored == get_all_records(sheets[n])
          IN  /\ df.columns = SHEET_SCHEMAS[n]
              /\ Len(df.rows) = Len(stored)
              /\ \A i \in DOMAIN df.rows :
                    /\ DOMAIN df.rows[i] = Range(SHEET_SCHEMAS[n])
                    /\ \A c \in Range(SHEET_SCHEMAS[n]) :
                          df.rows[i][c] = IF c \in Range(sheets[n].header)
                                          THEN stored[i][c] ELSE BlankCell(c)

\* C22 witness: exam_results has been read from a sheet of two rows whose
\* header lacks declared columns and has an undeclared one, and so has
\* the students sheet, which holds no row
C22_Witness ==
    /\ cache.exam_results.present /\ cache.students.present
    /\ Len(Rows("exam_results")) = 2
    /\ "memo" \in Range(sheets.exam_results.header)
    /\ "date" \notin Range(sheets.exam_results.header)
    /\ cache.students.df.rows = <<>>

\* the column lists of the record tables as the documentation of the
\* persisted schemas gives them
PersistedColumns ==
    [exam_results |-> <<"id", "student_id", "exam_category", "exam_name", "date",
                        "results_json", "created_at", "teacher_username",
                        "teacher_name">>,
     coaching_reports |-> <<"id", "student_id", "date", "student_eval_json",
                            "teacher_eval_json", "study_schedule_json",
                            "study_targets_json", "created_at", "updated_at",
                            "teacher_username", "teacher_name">>,
     eiken_records |-> <<"id", "student_id", "target_grade", "exam_date",
                         "practice_date", "category", "scores_json", "created_at",
                         "updated_at", "teacher_username", "teacher_name">>]

\* C23: a step that writes exam_results, coaching_reports or eiken_records
\* leaves that table with the documented column list, in that order,
\* including teacher_username and teacher_name and, for coaching_reports
\* and eiken_records, updated_at
C23_PersistedColumnsAfterWrite ==
    [][\A n \in DependentSheets :
          sheets'[n] # sheets[n] => sheets'[n].header = PersistedColumns[n]]_vars

\* the exam rows with the given id as a read of the table returns them
ReadBackExam(id) ==
    {r \in Range(fetch_sheet_df(World, "exam_results").rows) : r.id = id}

\* C24: the exam row read back after a create or an update carries the
\* username and the name of the teacher who made that create or update
C24_RowCarriesLatestEditor ==
    (lastOp.op \in {"exam_create", "exam_update"} /\ lastOp.msg = "success") =>
        \A r \in ReadBackExam(lastOp.id) :
            /\ "teacher_username" \in DOMAIN r /\ "teacher_name" \in DOMAIN r
            /\ r["teacher_username"] = session.username
            /\ r["teacher_name"] = session.name

\* C25: after an eiken create or update the total stored for each skill
\* is the EIKEN_TOTALS maximum of the grade stored in the same row
C25_StoredTotalsMatchStoredGrade ==
    (lastOp.op \in {"eiken_create", "eiken_update"} /\ lastOp.msg = "success") =>
        \A r \in RowSet("eiken_records") :
            r.id = lastOp.id =>
                \A k \in {"reading", "listening", "writing", "speaking"} :
                    json_loads(r.scores_json, <<>>)[k].total
                        = EIKEN_TOTALS[r.target_grade][k]

\* C26: a (student_id, date) key that has a coaching row keeps having one
\* after every step other than the delete-by-id of a row of that key
C26_ReportKeyLeavesOnlyByDelete ==
    [][\A sid \in everIssued.students, dt \in DateInputs :
          (/\ KeyRows(<<sid, dt>>) # {}
           /\ ~ (/\ lastOp'.op = "coaching_delete"
                 /\ \E i \in KeyRows(<<sid, dt>>) :
                       Rows("coaching_reports")[i].id = lastOp'.id))
          => (KeyRows(<<sid, dt>>))' # {}]_vars

\* C27: the id a create gives to a new exam, coaching or eiken row is 1
\* plus the greatest id cell of that table that parses as an integer, and
\* 1 when the table has no row, only blank id cells or no parseable one;
\* the new row is stored last with that id
C27_NewRecordIdIsOwnMaxPlusOne ==
    [][(/\ lastOp'.op \in {"exam_create", "coaching_save", "eiken_create"}
        /\ lastOp'.msg = "success"
        /\ clock' = clock + 1)
       => LET n == SheetOfCreate(lastOp'.op)
              own == {r.id : r \in RowSet(n)} \ {BLANK_NUM, BAD_NUM}
          IN  /\ lastOp'.id = IF own = {} THEN 1 ELSE SetMax(own) + 1
              /\ Len(sheets'[n].rows) = Len(Rows(n)) + 1
              /\ sheets'[n].rows[Len(sheets'[n].rows)].id = lastOp'.id]_vars

\* C27 witness: a create got id 6 in a table that held the ids 5 and 3 in
\* that order while another table holds the id 9, and the same create got
\* id 1 elsewhere over a blank and an unparseable id cell
C27_Witness ==
    /\ lastOp.op \in {"exam_create", "coaching_save", "eiken_create"}
    /\ lastOp.msg = "success"
    /\ \/ /\ lastOp.id = 6
          /\ Len(Rows(SheetOfCreate(lastOp.op))) = 3
          /\ Rows(SheetOfCreate(lastOp.op))[1].id = 5
          /\ Rows(SheetOfCreate(lastOp.op))[2].id = 3
          /\ \E m \in DependentSheets : \E r \in RowSet(m) : r.id = 9
       \/ /\ lastOp.id = 1
          /\ Len(Rows(SheetOfCreate(lastOp.op))) = 3
          /\ Rows(SheetOfCreate(lastOp.op))[1].id = BLANK_NUM
          /\ Rows(SheetOfCreate(lastOp.op))[2].id = BAD_NUM

\* the table a read of process i would return now
Served(i, n) ==
    IF peers[i][n].present /\ peers[i][n].age <= CACHE_TTL
    THEN peers[i][n].df ELSE fetch_sheet_df(World, n)

\* C28: a read in a process whose entry is within the ttl leaves the entry
\* as it is and returns it; a read with no entry or an entry past the ttl
\* fetches the stored table and starts a new entry; and if from some point
\* on the store is not written any more, then from some point on the read
\* of every process returns the stored rows
C28_CacheServesWithinTtlAndConverges ==
    /\ [][\A i \in Instances :
             PeerRead(i, "users") =>
                IF peers[i].users.present /\ peers[i].users.age <= CACHE_TTL
                THEN peers'[i].users = peers[i].users
                ELSE /\ peers'[i].users.df = fetch_sheet_df(World, "users")
                     /\ peers'[i].users.age = 0]_vars
    /\ (<>[][sheets' = sheets]_vars
          => <>[](\A i \in Instances :
                     Served(i, "users").rows = fetch_sheet_df(World, "users").rows))

\* C28 witness: one process holds an entry past the ttl that differs from
\* the store, the other holds a fresh entry equal to the store
C28_Witness ==
    /\ peers.P.users.present /\ peers.P.users.age > CACHE_TTL
    /\ peers.P.users.df.rows # fetch_sheet_df(World, "users").rows
    /\ peers.Q.users.present /\ peers.Q.users.age = 0
    /\ peers.Q.users.df.rows = fetch_sheet_df(World, "users").rows

----------------------------------------------------------------------------
(* The read-side aggregations: score chart, Eiken rates, monthly report *)

\* a cell of a JSON column whose text json.loads rejects
InvalidJsonCell == [text |-> "invalid", doc |-> <<>>]

\* d.get(key, default)
dict_get(d, key, default) == IF key \in DOMAIN d THEN d[key] ELSE default

\* the quotient n / d kept as a fraction; den = 0 is a ZeroDivisionError
Ratio(n, d) == [num |-> n, den |-> d]

\* the product r * k of a fraction and an integer
Times(r, k) == [num |-> r.num * k, den |-> r.den]

RECURSIVE SumOver(_, _)
SumOver(S, f) ==
    IF S = {} THEN 0
    ELSE LET x == CHOOSE y \in S : TRUE IN f[x] + SumOver(S \ {x}, f)

RECURSIVE SeqSum(_)
SeqSum(s) == IF s = <<>> THEN 0 ELSE s[1] + SeqSum(Tail(s))

RECURSIVE FlatMap(_, _)
FlatMap(s, f) == IF s = <<>> THEN <<>> ELSE f[s[1]] \o FlatMap(Tail(s), f)

\* datetime.fromisoformat(text).date(): the month of the texts it accepts;
\* every other text raises
ISO_MONTH == [d \in {"2024-05-01", "2024-05-02"} |-> "2024-05"]
               @@ [d \in {"2024-06-01"} |-> "2024-06"]

\* mutant: the division is made whatever the total
get_rate_always_dividing(s, skill_key) ==
    LET info == dict_get(s, skill_key, <<>>)
        c == dict_get(info, "correct", 0)
        t == dict_get(info, "total", 0)
    IN  [correct |-> c, total |-> t, rate |-> Times(Ratio(c, t), 100)]

\* get_rate(skill_key) of the Eiken page over the parsed scores s
get_rate(s, skill_key) ==
    LET info == dict_get(s, skill_key, <<>>)
        c == dict_get(info, "correct", 0)
        t == dict_get(info, "total", 0)
    IN  [correct |-> c, total |-> t,
         rate |-> IF t # 0 THEN Times(Ratio(c, t), 100) ELSE Ratio(0, 1)]

\* get_skill(skill_key) of the parent report over the parsed scores s
get_skill(s, skill_key) ==
    LET info == dict_get(s, skill_key, <<>>)
        c == dict_get(info, "correct", 0)
        t == dict_get(info, "total", 0)
    IN  [correct |-> c, total |-> t,
         rate |-> IF t # 0 THEN Times(Ratio(c, t), 100) ELSE Ratio(0, 1)]

EIKEN_SKILLS == {"reading", "listening", "writing", "speaking"}

\* mutant: a cell json.loads rejects ends the loop with the exception
exam_chart_uncaught(rows) ==
    [i \in DOMAIN rows |->
        IF rows[i].results_json.text = "invalid"
        THEN [raised |-> TRUE, t_score |-> 0, t_target |-> 0, subjects |-> <<>>]
        ELSE LET r == json_loads(rows[i].results_json, <<>>)
             IN  [raised |-> FALSE,
                  t_score |-> SumOver(DOMAIN r,
                                 [subj \in DOMAIN r |-> dict_get(r[subj], "score", 0)]),
                  t_target |-> SumOver(DOMAIN r,
                                 [subj \in DOMAIN r |-> dict_get(r[subj], "target", 0)]),
                  subjects |-> [subj \in DOMAIN r |-> dict_get(r[subj], "score", 0)]]]

\* the loop of the score chart: per exam row the total score, the total
\* target and the point each subject's series receives
exam_chart(rows) ==
    [i \in DOMAIN rows |->
        LET r == json_loads(rows[i].results_json, <<>>)
        IN  [raised |-> FALSE,
             t_score |-> SumOver(DOMAIN r,
                            [subj \in DOMAIN r |-> dict_get(r[subj], "score", 0)]),
             t_target |-> SumOver(DOMAIN r,
                            [subj \in DOMAIN r |-> dict_get(r[subj], "target", 0)]),
             subjects |-> [subj \in DOMAIN r |-> dict_get(r[subj], "score", 0)]]]

\* the loop of the Eiken chart: per record the four skills' correct, total
\* and rate
eiken_chart(rows) ==
    [i \in DOMAIN rows |->
        LET s == json_loads(rows[i].scores_json, <<>>)
        IN  [raised |-> FALSE, id |-> rows[i].id,
             skills |-> [k \in EIKEN_SKILLS |-> get_rate(s, k)]]]

\* the monthly summary of the parent report over the student's reports:
\* the reports of the month, then the series, the hours and the averages
monthly_summary(rows, month) ==
    LET in_month == {i \in DOMAIN rows :
                        /\ rows[i].date \in DOMAIN ISO_MONTH
                        /\ ISO_MONTH[rows[i].date] = month}
        records_month == SelectRows(rows, in_month)
        se(i) == json_loads(records_month[i].student_eval_json, <<>>)
        te(i) == json_loads(records_month[i].teacher_eval_json, <<>>)
        schedule(i) == json_loads(records_month[i].study_schedule_json, <<>>)
        \* x if isinstance(x, (int, float)) else None: <<x>> or <<>>
        number(d, key) == IF key \in DOMAIN d THEN <<d[key]>> ELSE <<>>
        stu_understanding_list ==
            FlatMap([i \in DOMAIN records_month |-> i],
                    [i \in DOMAIN records_month |-> number(se(i), "rikaido")])
        tch_homework_list ==
            FlatMap([i \in DOMAIN records_month |-> i],
                    [i \in DOMAIN records_month |-> number(te(i), "shukudai")])
    IN  [raised |-> FALSE,
         num_sessions |-> Len(records_month),
         series |-> [i \in DOMAIN records_month |->
                       [d_str |-> records_month[i].date,
                        u |-> number(se(i), "rikaido"),
                        g |-> number(se(i), "mokuhyo"),
                        m |-> number(se(i), "motivation"),
                        att |-> number(te(i), "taido"),
                        hw |-> number(te(i), "shukudai"),
                        prevu |-> number(te(i), "zenkai")]],
         total_hours |-> SeqSum([i \in DOMAIN records_month |->
                                   SumOver(DOMAIN schedule(i), schedule(i))]),
         avg_understanding |->
             IF stu_understanding_list # <<>>
             THEN Ratio(SeqSum(stu_understanding_list), Len(stu_understanding_list))
             ELSE Ratio(0, 1),
         avg_homework |->
             IF tch_homework_list # <<>>
             THEN Ratio(SeqSum(tch_homework_list), Len(tch_homework_list))
             ELSE Ratio(0, 1)]

\* the Eiken table of the parent report: the month's records with get_skill
month_eiken_rows(rows, month) ==
    LET in_month == {i \in DOMAIN rows :
                        /\ rows[i].practice_date \in DOMAIN ISO_MONTH
                        /\ ISO_MONTH[rows[i].practice_date] = month}
        kept == SelectRows(rows, in_month)
    IN  [i \in DOMAIN kept |->
            LET s == json_loads(kept[i].scores_json, <<>>)
            IN  [k \in EIKEN_SKILLS |-> get_skill(s, k)]]

\* df[df["student_id"] == sid]
rows_of_student(df, student_id) ==
    SelectRows(df.rows, {i \in DOMAIN df.rows : df.rows[i].student_id = student_id})

\* page_grade_tracker with a student selected, through the score chart
GradeChartView(student_id) ==
    LET w1 == after_loads(World, <<"users", "students", "exam_results">>)
        exam_df == rows_of_student(get_exam_results_df(w1), student_id)
    IN  /\ LoggedIn
        /\ student_id \in student_choices(get_students_df(w1))
        /\ cache' = w1.cache
        /\ lastOp' = IF exam_df = <<>>
                     THEN [Op("grade_chart", "info_no_data") EXCEPT !.id = student_id]
                     ELSE [Op("grade_chart", "") EXCEPT !.id = student_id,
                              !.out = exam_chart(exam_df)]
        /\ UNCHANGED <<sheets, session, clock, everIssued, pending, peers>>

\* page_eiken with a student selected, through the rates chart
EikenChartView(student_id) ==
    LET w1 == after_loads(World, <<"users", "students", "eiken_records">>)
        eiken_df_student == rows_of_student(get_eiken_df(w1), student_id)
    IN  /\ LoggedIn
        /\ student_id \in student_choices(get_students_df(w1))
        /\ cache' = w1.cache
        /\ lastOp' = IF eiken_df_student = <<>>
                     THEN [Op("eiken_chart", "info_no_data") EXCEPT !.id = student_id]
                     ELSE [Op("eiken_chart", "") EXCEPT !.id = student_id,
                              !.out = eiken_chart(eiken_df_student)]
        /\ UNCHANGED <<sheets, session, clock, everIssued, pending, peers>>

\* button "generate_report" of page_parent_report
ParentReportGenerate(student_id, month) ==
    LET w1 == after_loads(World, <<"users", "students", "coaching_reports",
                                   "exam_results", "eiken_records">>)
        coaching_df == rows_of_student(get_coaching_df(w1), student_id)
        eiken_df_student == rows_of_student(get_eiken_df(w1), student_id)
    IN  /\ LoggedIn
        /\ student_id \in student_choices(get_students_df(w1))
        /\ cache' = w1.cache
        /\ lastOp' = [Op("parent_report", month) EXCEPT
                         !.id = student_id,
                         !.out = [summary |-> monthly_summary(coaching_df, month),
                                  eiken |-> month_eiken_rows(eiken_df_student, month)]]
        /\ UNCHANGED <<sheets, session, clock, everIssued, pending, peers>>

MaxReportRows == 2
REPORT_MONTH == "2024-05"

ResultsCells ==
    {EmptyJsonCell, InvalidJsonCell, json_dumps(<<>>),
     json_dumps([eigo |-> [target |-> 80, score |-> 70],
                 sugaku |-> [target |-> 60, score |-> 65]])}

ScoresCells ==
    {EmptyJsonCell, InvalidJsonCell, json_dumps(<<>>),
     json_dumps([reading |-> [correct |-> 10, total |-> 35],
                 listening |-> [correct |-> 10, total |-> 30],
                 writing |-> [correct |-> 10, total |-> 0],
                 speaking |-> [correct |-> 0, total |-> 0]]),
     json_dumps([reading |-> [correct |-> 5], listening |-> [total |-> 30]])}

EvalCells ==
    {<<EmptyJsonCell, EmptyJsonCell, EmptyJsonCell>>,
     <<InvalidJsonCell, InvalidJsonCell, InvalidJsonCell>>,
     <<json_dumps(<<>>), json_dumps(<<>>), json_dumps(<<>>)>>,
     <<json_dumps(student_eval_of), json_dumps(teacher_eval_of(4)),
       json_dumps(schedule_dict_of)>>,
     <<InvalidJsonCell, json_dumps(teacher_eval_of(3)), EmptyJsonCell>>}

\* the cells a drawn row of each record table holds besides its id and
\* its student
ReportDraws ==
    [exam_results |->
        {[date |-> "2024-05-01", results_json |-> x] : x \in ResultsCells},
     eiken_records |->
        {[practice_date |-> "2024-05-01", scores_json |-> x] : x \in ScoresCells},
     coaching_reports |->
        {[date |-> d, student_eval_json |-> x[1], teacher_eval_json |-> x[2],
          study_schedule_json |-> x[3]] :
            d \in {"2024-05-01", "2024-06-01"}, x \in EvalCells}]

\* one student is registered, master is logged in, and one record table
\* holds drawn rows of that student
InitReports ==
    /\ \E n \in DependentSheets :
       \E draws \in SeqsUpTo(ReportDraws[n], MaxReportRows) :
          sheets = [m \in SHEET_NAMES |->
                      IF m = n
                      THEN [header |-> required_sheets[m],
                            rows |-> [i \in DOMAIN draws |->
                                        [c \in Range(required_sheets[m]) |->
                                           IF c \in DOMAIN draws[i] THEN draws[i][c]
                                           ELSE IF c = "id" THEN i
                                           ELSE IF c = "student_id" THEN FIRST_STUDENT_ID
                                           ELSE BlankCell(c)]]]
                      ELSE IF m = "students"
                      THEN [header |-> required_sheets[m],
                            rows |-> <<[c \in Range(required_sheets[m]) |->
                                          IF c = "student_id" THEN FIRST_STUDENT_ID
                                          ELSE IF c = "name" THEN "s1"
                                          ELSE BlankCell(c)]>>]
                      ELSE ensure_master_user(init_sheets).sheets[m]]
    /\ cache = [n \in SHEET_NAMES |-> NoEntry]
    /\ pending = [wr \in Writers |-> Idle]
    /\ peers = [i \in Instances |-> [n \in SHEET_NAMES |-> NoPeerEntry]]
    /\ session = [username |-> MASTER_USERNAME, name |-> MASTER_NAME]
    /\ clock = 0
    /\ lastOp = NoOp
    /\ everIssued = [students |-> {}, exam_results |-> {}, coaching_reports |-> {},
                     eiken_records |-> {}]

NextReports ==
    \/ \E sid \in CurrentStudentIds : GradeChartView(sid)
    \/ \E sid \in CurrentStudentIds : EikenChartView(sid)
    \/ \E sid \in CurrentStudentIds : ParentReportGenerate(sid, REPORT_MONTH)

SpecReports == InitReports /\ [][NextReports]_vars

\* the rows with every empty or unparseable JSON cell replaced by the text
\* of the empty document
WithEmptyDocuments(rows) ==
    [i \in DOMAIN rows |->
        [c \in DOMAIN rows[i] |->
            IF c \in JsonColumns /\ rows[i][c].text # "valid"
            THEN json_dumps(<<>>) ELSE rows[i][c]]]

\* the rows of the student of the last operation as a read of the stored
\* table returns them
StudentRowsAsRead(n) ==
    SelectRows(fetch_sheet_df(World, n).rows,
               {i \in DOMAIN fetch_sheet_df(World, n).rows :
                   fetch_sheet_df(World, n).rows[i].student_id = lastOp.id})

\* C29: the score chart, the Eiken rates and the monthly summary complete
\* without an exception, and their result is the result over the same rows
\* with every empty or unparseable JSON cell replaced by the empty document
C29_UnparseableCountsAsEmptyDocument ==
    /\ (lastOp.op = "grade_chart" /\ lastOp.msg = "")
          => /\ \A i \in DOMAIN lastOp.out : ~lastOp.out[i].raised
             /\ lastOp.out
                  = exam_chart(WithEmptyDocuments(StudentRowsAsRead("exam_results")))
    /\ (lastOp.op = "eiken_chart" /\ lastOp.msg = "")
          => /\ \A i \in DOMAIN lastOp.out : ~lastOp.out[i].raised
             /\ lastOp.out
                  = eiken_chart(WithEmptyDocuments(StudentRowsAsRead("eiken_records")))
    /\ lastOp.op = "parent_report"
          => /\ ~lastOp.out.summary.raised
             /\ lastOp.out.summary
                  = monthly_summary(
                        WithEmptyDocuments(StudentRowsAsRead("coaching_reports")),
                        lastOp.msg)
             /\ lastOp.out.eiken
                  = month_eiken_rows(
                        WithEmptyDocuments(StudentRowsAsRead("eiken_records")),
                        lastOp.msg)

\* C29 witness: the score chart was drawn over two exams of the student,
\* one with results and one whose results cell json.loads rejects
C29_Witness ==
    /\ lastOp.op = "grade_chart" /\ lastOp.msg = ""
    /\ \E i, j \in DOMAIN StudentRowsAsRead("exam_results") :
          /\ StudentRowsAsRead("exam_results")[i].results_json = InvalidJsonCell
          /\ StudentRowsAsRead("exam_results")[j].results_json.text = "valid"
          /\ lastOp.out[j].t_score > 0

\* the stored scores of the records the last rates were computed over
RatedScores ==
    [i \in DOMAIN StudentRowsAsRead("eiken_records") |->
        json_loads(StudentRowsAsRead("eiken_records")[i].scores_json, <<>>)]

\* C30: a skill whose stored total is 0 or missing has rate 0 whatever its
\* correct count, no rate is the result of a division by zero, and a skill
\* with a positive total has the rate correct / total * 100
C30_RateIsZeroWithoutTotal ==
    (lastOp.op = "eiken_chart" /\ lastOp.msg = "")
       => \A i \in DOMAIN lastOp.out : \A k \in EIKEN_SKILLS :
             LET info == dict_get(RatedScores[i], k, <<>>)
                 c == dict_get(info, "correct", 0)
                 t == dict_get(info, "total", 0)
                 rate == lastOp.out[i].skills[k].rate
             IN  /\ rate.den # 0
                 /\ t = 0 => rate.num = 0
                 /\ t > 0 => rate.num * t = c * 100 * rate.den

\* C30 witness: rates were computed for a record with a skill of total 0
\* and a positive correct count and a skill of positive total
C30_Witness ==
    /\ lastOp.op = "eiken_chart" /\ lastOp.msg = ""
    /\ \E i \in DOMAIN lastOp.out : \E k, l \in EIKEN_SKILLS :
          /\ lastOp.out[i].skills[k].total = 0
          /\ lastOp.out[i].skills[k].correct > 0
          /\ lastOp.out[i].skills[l].total > 0
          /\ lastOp.out[i].skills[l].rate.num > 0

----------------------------------------------------------------------------
(* The JSON columns read back *)

ReadBackEiken(id) ==
    {r \in Range(fetch_sheet_df(World, "eiken_records").rows) : r.id = id}

----------------------------------------------------------------------------
(* Grade promotion over drawn grades *)

MaxPromoteRows == 2

\* the grade cells a stored students row may hold: the choices of the form,
\* an empty cell and a text that is no choice
DrawnGrades == Range(GRADE_CHOICES) \cup {"", "X9"}

\* page_student_management with a student selected in the edit form, through
\* the single-student promotion section
StudentEditView(selected_id) ==
    LET w1 == after_loads(World, <<"users", "students">>)
        students_df == get_students_df(w1)
        target_row == students_df.rows[first_index(students_df, "student_id",
                                                   selected_id)]
        current_grade == target_row.grade
        next_grade == promote_grade_value(current_grade)
    IN  /\ LoggedIn
        /\ selected_id \in student_choices(students_df)
        /\ cache' = w1.cache
        /\ lastOp' = [Op("student_edit_view",
                         IF next_grade # current_grade THEN "candidate"
                         ELSE "no_promotion") EXCEPT
                         !.id = selected_id,
                         !.out = [current_grade |-> current_grade,
                                  next_grade |-> next_grade]]
        /\ UNCHANGED <<sheets, session, clock, everIssued, pending, peers>>

\* master is logged in and the students table holds rows with drawn grades
InitPromote ==
    /\ \E grades \in SeqsUpTo(DrawnGrades, MaxPromoteRows) :
          sheets = [m \in SHEET_NAMES |->
                      IF m = "students"
                      THEN [header |-> required_sheets[m],
                            rows |-> [i \in DOMAIN grades |->
                                        [c \in Range(required_sheets[m]) |->
                                           IF c = "student_id"
                                           THEN FIRST_STUDENT_ID + i - 1
                                           ELSE IF c = "name" THEN "s1"
                                           ELSE IF c = "grade" THEN grades[i]
                                           ELSE BlankCell(c)]]]
                      ELSE ensure_master_user(init_sheets).sheets[m]]
    /\ cache = [n \in SHEET_NAMES |-> NoEntry]
    /\ pending = [wr \in Writers |-> Idle]
    /\ peers = [i \in Instances |-> [n \in SHEET_NAMES |-> NoPeerEntry]]
    /\ session = [username |-> MASTER_USERNAME, name |-> MASTER_NAME]
    /\ clock = 0
    /\ lastOp = NoOp
    /\ everIssued = [students |-> {}, exam_results |-> {}, coaching_reports |-> {},
                     eiken_records |-> {}]

NextPromote ==
    \/ \E sid \in CurrentStudentIds : StudentEditView(sid)
    \/ /\ lastOp.op # "bulk_promote"
       /\ \E g \in {Range(GRADE_CHOICES), {"H3", "KISOTSU"}} : BulkPromote(g)

SpecPromote == InitPromote /\ [][NextPromote]_vars

\* the grades promotion leaves as they are: the last grade of school, the
\* graduates, and every text that is no grade of the form
Unpromoted == {"H3", "KISOTSU", "", "X9"}

\* C32: the promotion of a grade that is no key of the ladder is the grade
\* itself, and the promotion of a key is its successor in the ladder, both
\* in the edit form's candidate and in the rows a bulk promotion rewrites
C32_PromotionOutsideLadderIsNoOp ==
    /\ [](lastOp.op = "student_edit_view"
            => /\ lastOp.out.current_grade \in Unpromoted
                    => lastOp.out.next_grade = lastOp.out.current_grade
               /\ lastOp.out.current_grade \notin DOMAIN PROMOTION_MAP
                    => lastOp.out.next_grade = lastOp.out.current_grade
               /\ lastOp.out.current_grade \in DOMAIN PROMOTION_MAP
                    => lastOp.out.next_grade = PROMOTION_MAP[lastOp.out.current_grade])
    /\ [][\A g \in {Range(GRADE_CHOICES), {"H3", "KISOTSU"}} :
             (BulkPromote(g) /\ lastOp'.msg = "success")
                => \A i \in DOMAIN sheets.students.rows :
                      LET old == sheets.students.rows[i].grade
                          new == sheets'.students.rows[i].grade
                      IN  /\ old \in Unpromoted => new = old
                          /\ old \notin DOMAIN PROMOTION_MAP => new = old
                          /\ (old \in DOMAIN PROMOTION_MAP /\ old \in g)
                               => new = PROMOTION_MAP[old]]_vars

\* C32 witness: a bulk promotion has rewritten a table that holds a row of
\* the graduates and a row of a grade reached by promotion, and counted both
C32_Witness ==
    /\ lastOp.op = "bulk_promote" /\ lastOp.msg = "success" /\ lastOp.n = 2
    /\ \E i, j \in DOMAIN sheets.students.rows :
          /\ sheets.students.rows[i].grade = "KISOTSU"
          /\ sheets.students.rows[j].grade = "E2"

----------------------------------------------------------------------------
(* The role lookup over drawn users tables *)

MaxRoleRows == 2

\* users rows beside the master row: empty, plain and digit usernames with
\* an empty, a teacher and a master role
DrawnRoleRows ==
    {[username |-> u, name |-> "", password_hash |-> Hasher_hash("pw1"), role |-> r] :
        u \in {"", "t1", "007"}, r \in {"", "teacher", "master"}}

\* a session is logged in under a drawn username, which may have no row
InitRoles ==
    /\ \E us \in SeqsUpTo(DrawnRoleRows, MaxRoleRows), cached \in BOOLEAN :
          /\ sheets = [ensure_master_user(init_sheets).sheets EXCEPT
                          !.users.rows = @ \o us]
          /\ cache = IF cached
                     THEN after_load([sheets |-> sheets, cache |-> init_sheets.cache],
                                     "users").cache
                     ELSE init_sheets.cache
    /\ \E u \in {"t1", "7", "t9", MASTER_USERNAME} :
          session = [username |-> u, name |-> u]
    /\ pending = [wr \in Writers |-> Idle]
    /\ peers = [i \in Instances |-> [n \in SHEET_NAMES |-> NoPeerEntry]]
    /\ clock = 0
    /\ lastOp = NoOp
    /\ everIssued = [students |-> {}, exam_results |-> {}, coaching_reports |-> {},
                     eiken_records |-> {}]

\* main() of a logged-in session, through get_current_user_role
RoleLookup ==
    /\ LoggedIn
    /\ cache' = after_load(World, "users").cache
    /\ lastOp' = [Op("role_lookup", "") EXCEPT !.out = current_role(World)]
    /\ UNCHANGED <<sheets, session, clock, everIssued, pending, peers>>

SpecRoles == InitRoles /\ [][RoleLookup \/ Logout]_vars

\* the stored users rows, as read, whose username is that of the session
SessionUserRows ==
    {r \in Range(fetch_sheet_df(World, "users").rows) :
        str(r.username) = session.username}

\* C33: the lookup gives a role for every session username: teacher when no
\* users row has the username or when its rows store an empty role, and
\* master only when a users row of that username stores the role master
C33_RoleDefaultsToTeacher ==
    lastOp.op = "role_lookup"
       => /\ lastOp.out \in {"teacher", "master"}
          /\ SessionUserRows = {} => lastOp.out = "teacher"
          /\ (\A r \in SessionUserRows : r.role = "") => lastOp.out = "teacher"
          /\ lastOp.out = "master" => \E r \in SessionUserRows : r.role = "master"

\* C33 witness: the role of a session whose username has no users row was
\* looked up while another username's row stores the master role
C33_Witness ==
    /\ lastOp.op = "role_lookup"
    /\ SessionUserRows = {}
    /\ \E r \in Range(fetch_sheet_df(World, "users").rows) :
          r.role = "master" /\ str(r.username) = "t1"

----------------------------------------------------------------------------
(* Exam update over a cached table that may lag the store *)

MaxStaleRows == 3

\* the exam rows some server process has stored for the one student
StaleExamRows ==
    [i \in 1 .. MaxStaleRows |->
        [c \in Range(SHEET_SCHEMAS.exam_results) |->
            IF c = "id" THEN i
            ELSE IF c = "student_id" THEN FIRST_STUDENT_ID
            ELSE IF c = "exam_category" THEN "teiki"
            ELSE IF c = "exam_name" THEN REGULAR_EXAM_NAMES[1]
            ELSE IF c = "date" THEN "2024-05-01"
            ELSE IF c = "results_json"
            THEN json_dumps([eigo |-> [target |-> 80, score |-> 75]])
            ELSE IF c = "created_at" THEN i
            ELSE BlankCell(c)]]

\* the store with the exam rows numbered in keep
StaleSheets(keep) ==
    [m \in SHEET_NAMES |->
        IF m = "exam_results"
        THEN [header |-> SHEET_SCHEMAS[m], rows |-> SelectRows(StaleExamRows, keep)]
        ELSE IF m = "students"
        THEN [header |-> required_sheets[m],
              rows |-> <<[c \in Range(required_sheets[m]) |->
                            IF c = "student_id" THEN FIRST_STUDENT_ID
                            ELSE IF c = "name" THEN "s1"
                            ELSE BlankCell(c)]>>]
        ELSE ensure_master_user(init_sheets).sheets[m]]

\* a teacher or master is logged in; the exam table was cached when it held
\* the rows in was, and another server process has since left the rows in is
InitStale ==
    /\ \E was, is \in SUBSET (1 .. MaxStaleRows) :
          /\ sheets = StaleSheets(is)
          /\ cache = after_load([sheets |-> StaleSheets(was), cache |-> init_sheets.cache],
                                "exam_results").cache
    /\ session = [username |-> MASTER_USERNAME, name |-> MASTER_NAME]
    /\ pending = [wr \in Writers |-> Idle]
    /\ peers = [i \in Instances |-> [n \in SHEET_NAMES |-> NoPeerEntry]]
    /\ clock = 0
    /\ lastOp = NoOp
    /\ everIssued = [students |-> {}, exam_results |-> {}, coaching_reports |-> {},
                     eiken_records |-> {}]

ExamEditInputs == {<<"moshi", "zenkoku", "2024-05-02", 60>>}

SpecStale ==
    /\ InitStale
    /\ [][\/ \E sid \in student_choices(load_sheet_df(World, "students")),
               id \in 1 .. MaxStaleRows, e \in ExamEditInputs, expired \in BOOLEAN :
               ExamUpdate(sid, id, e[1], e[2], e[3], e[4], expired)
          \/ \E sid \in student_choices(load_sheet_df(World, "students")) :
               GradeChartView(sid)]_vars

\* the exam table the button handler of an update reads
ExamTableRead(expired) ==
    IF expired \/ ~ cache.exam_results.present
    THEN fetch_sheet_df(World, "exam_results")
    ELSE cache.exam_results.df

----------------------------------------------------------------------------
(* Sequential student operations *)

\* register, edit, promote and delete students, one operation after another
SpecStudentOps ==
    /\ Init
    /\ [][\/ LoginStep
          \/ StudentCreate("Taro", "J2", <<>>, <<>>)
          \/ \E sid \in CurrentStudentIds : StudentUpdate(sid, "Taro", "H3", "")
          \/ BulkPromote({"J2"})
          \/ \E sid \in CurrentStudentIds : StudentDelete({sid}, MASTER_PASSWORD)]_vars

\* C35: no two rows of the students table, as read, hold the same
\* student_id
C35_StudentIdsPairwiseDistinct ==
    LET rows == fetch_sheet_df(World, "students").rows
    IN  \A i, j \in DOMAIN rows : rows[i].student_id = rows[j].student_id => i = j

\* C35 witness: two students are stored after the first student registered
\* was deleted and a promotion has run
C35_Witness ==
    /\ Len(sheets.students.rows) = 2
    /\ FIRST_STUDENT_ID \notin CurrentStudentIds
    /\ lastOp.op = "bulk_promote" /\ lastOp.msg = "success"

----------------------------------------------------------------------------
(* Two registrations between their read and their write *)

\* button "register_student" in the run of writer wr, up to the call of
\* write_sheet_df: the tables are read, the id is computed and the new row
\* is appended in memory
StudentCreateRead(wr, name) ==
    LET w1 == after_loads(World, <<"users", "students">>)
        students_df == get_students_df(w1)
        new_id == generate_new_student_id(w1, students_df)
        w2 == after_loads(w1, <<"exam_results", "coaching_reports", "eiken_records">>)
        new_row == [student_id |-> new_id, name |-> name, grade |-> "J3",
                    school_name |-> "", target_school |-> "", admission_goal |-> "",
                    student_login_id |-> "",
                    subjects |-> json_dumps(JUNIOR_SUBJECTS),
                    mock_subjects |-> json_dumps(<<>>),
                    created_at |-> clock + 1]
    IN  /\ LoggedIn
        /\ pending[wr].stage # "read"
        /\ name # ""
        /\ clock < MaxClock
        /\ Len(students_df.rows) < MaxStudents
        /\ clock' = clock + 1
        /\ cache' = w2.cache
        /\ pending' = [pending EXCEPT ![wr] =
                          [stage |-> "read", snapshot |-> students_df.rows,
                           df |-> concat_row(students_df, STUDENT_KEYS, new_row),
                           id |-> new_id, msg |-> ""]]
        /\ lastOp' = Op("student_create", "reading")
        /\ UNCHANGED <<sheets, session, everIssued, peers>>

\* mutant: the write re-reads the table and appends the run's new row
StudentCreateWrite_merging(wr) ==
    LET mine == pending[wr].df.rows[Len(pending[wr].df.rows)]
        now == fetch_sheet_df(World, "students")
        w3 == write_sheet_df(World, "students",
                             [pending[wr].df EXCEPT !.rows = Append(now.rows, mine)])
    IN  /\ pending[wr].stage = "read"
        /\ sheets' = w3.sheets
        /\ cache' = w3.cache
        /\ pending' = [pending EXCEPT ![wr].stage = "done", ![wr].msg = "success"]
        /\ lastOp' = [Op("student_create", "success") EXCEPT !.id = pending[wr].id]
        /\ everIssued' = [everIssued EXCEPT !.students = @ \cup {pending[wr].id}]
        /\ UNCHANGED <<session, clock, peers>>

\* the rest of the run of writer wr: write_sheet_df with the table built
\* at read time, then the success message with the id
StudentCreateWrite(wr) ==
    LET w3 == write_sheet_df(World, "students", pending[wr].df)
    IN  /\ pending[wr].stage = "read"
        /\ sheets' = w3.sheets
        /\ cache' = w3.cache
        /\ pending' = [pending EXCEPT ![wr].stage = "done", ![wr].msg = "success"]
        /\ lastOp' = [Op("student_create", "success") EXCEPT !.id = pending[wr].id]
        /\ everIssued' = [everIssued EXCEPT !.students = @ \cup {pending[wr].id}]
        /\ UNCHANGED <<session, clock, peers>>

\* writer A registers Taro and writer B registers Jiro, their reads and
\* writes in any order
SpecStudentRace ==
    /\ Init
    /\ [][\/ LoginStep
          \/ StudentCreateRead("A", "Taro")
          \/ StudentCreateRead("B", "Jiro")
          \/ \E wr \in Writers : StudentCreateWrite(wr)
          \/ GradeTrackerView]_vars

\* C36: when a registration writes after another one that read the same
\* students table has written, both computed the same student_id and both
\* report success; the table then holds exactly one row with that id, the
\* row of the later writer, and no row of the earlier writer's student
C36_RacingRegistrationsShareAnId ==
    [][\A wr \in Writers : \A o \in Writers \ {wr} :
          (/\ StudentCreateWrite(wr)
           /\ pending[o].stage = "done"
           /\ pending[o].snapshot = pending[wr].snapshot)
             => LET after == (fetch_sheet_df(World, "students").rows)'
                    mine == pending[wr].df.rows[Len(pending[wr].df.rows)]
                    theirs == pending[o].df.rows[Len(pending[o].df.rows)]
                    same == {i \in DOMAIN after : after[i].student_id = pending[wr].id}
                IN  /\ pending[o].id = pending[wr].id
                    /\ pending[o].msg = "success" /\ pending'[wr].msg = "success"
                    /\ lastOp'.id = pending[o].id
                    /\ Cardinality(same) = 1
                    /\ \A i \in same : /\ after[i].name = mine.name
                                       /\ after[i].created_at = mine.created_at
                    /\ \A i \in DOMAIN after :
                          after[i].created_at # theirs.created_at]_vars

\* C36 witness: both writers have written after reading the same table,
\* each was given the same id, and the table holds Jiro under that id
C36_Witness ==
    /\ pending.A.stage = "done" /\ pending.B.stage = "done"
    /\ pending.A.snapshot = pending.B.snapshot
    /\ pending.A.id = pending.B.id
    /\ \E i \in DOMAIN sheets.students.rows :
          /\ sheets.students.rows[i].student_id = pending.A.id
          /\ sheets.students.rows[i].name = "Jiro"

----------------------------------------------------------------------------
(* The write that fails between its clear and its update *)

\* C37: an exam create whose write raises at the update, after the clear,
\* leaves the stored table without rows, and one that raises at the clear
\* leaves it as it was; in both cases a read in the same process returns
\* the rows it returned before the write, and it keeps returning them
\* through every later page run and failed create, which leave the cached
\* entry in place
C37_FailedUpdateLeavesSheetCleared ==
    /\ [][\A sid \in CurrentStudentIds, stage \in WriteStages :
             ExamCreateRaising(sid, "teiki", REGULAR_EXAM_NAMES[1], stage)
                => /\ stage = "update" => sheets'.exam_results.rows = <<>>
                   /\ stage = "clear" => sheets'.exam_results = sheets.exam_results
                   /\ cache'.exam_results.present
                   /\ cache'.exam_results.df.rows
                        = load_sheet_df(World, "exam_results").rows]_vars
    /\ [][(/\ cache.exam_results.present
           /\ \/ lastOp'.op \in {"grade_view", "login"}
              \/ lastOp'.op = "exam_create" /\ lastOp'.msg = "exception")
             => cache'.exam_results = cache.exam_results]_vars

\* C37 witness: after a write that raised at the update the stored exam
\* table has no rows, and a later run of the grade page was served the
\* rows of before the write from the cache
C37_Witness ==
    /\ lastOp.op = "grade_view"
    /\ sheets.exam_results.rows = <<>> /\ everIssued.exam_results # {}
    /\ cache.exam_results.present
    /\ load_sheet_df(World, "exam_results").rows # <<>>

-----------------------------------------------------------------------------
(* The accounts page and the role master *)

UsersAsRead == fetch_sheet_df(World, "users").rows

\* the usernames whose stored role is master
MasterRoleNames ==
    {str(UsersAsRead[i].username) :
        i \in {j \in DOMAIN UsersAsRead : UsersAsRead[j].role = "master"}}

\* C38: over account creates, password changes and account deletes the
\* set of usernames whose stored role is master never gains a member, and
\* a password change that succeeds leaves every row as it was read except
\* the first row of the selected username, of which only password_hash
\* changes, to the hash of the new password
C38_MasterRoleNeverGranted ==
    /\ [][MasterRoleNames' \subseteq MasterRoleNames]_vars
    /\ [][\A u \in CurrentUsernames :
             (TeacherChangePassword(u, "pw1") /\ lastOp'.msg = "success")
                => LET old == UsersAsRead
                       new == UsersAsRead'
                       idx == CHOOSE i \in DOMAIN old :
                                /\ old[i].username = u
                                /\ \A j \in DOMAIN old : old[j].username = u => i <= j
                   IN  /\ DOMAIN new = DOMAIN old
                       /\ \A i \in DOMAIN old : i # idx => new[i] = old[i]
                       /\ new[idx] = [old[idx] EXCEPT
                                         !.password_hash = Hasher_hash("pw1")]]_vars

\* C38 witness: a password change of the master account succeeded next to
\* a teacher account; the master row holds the new hash and master is the
\* only username of role master
C38_Witness ==
    /\ lastOp.op = "teacher_change_pw" /\ lastOp.msg = "success"
    /\ Len(UsersAsRead) > 1
    /\ \E r \in Range(UsersAsRead) :
          /\ r.username = "master" /\ r.password_hash = Hasher_hash("pw1")
    /\ \E r \in Range(UsersAsRead) : r.role = "teacher"
    /\ MasterRoleNames = {"master"}

====
